---- MODULE Spec2Model ----
(***************************************************************************)
(* The BSC indexing pipeline: the Listener (listener/src/service.rs), which *)
(* polls chain logs per filter behind a sync cursor, and the Processor      *)
(* (processor/src/service.rs), which drains the raw-log queue through the   *)
(* decoders and handlers.                                                   *)
(***************************************************************************)
EXTENDS Integers, Sequences, FiniteSets, TLC

VARIABLES
    sync,       \* evm_sync_logs: row -> last_synced_block_number
    queue,      \* evm_logs: the raw-log queue, rows [id, src] in insert order
    nextId,     \* evm_logs serial id
    pc,         \* per filter: "idle" (between ticks) or "fetching" (in fetch_logs_with_retry)
    lastB,      \* per filter: last_synced_block_number read by the running tick
    latestB,    \* per filter: latest_block of the running tick
    fromB,      \* per filter: from_block_number of the running tick
    toB,        \* per filter: to_block_number of the running tick
    att,        \* per filter: get_logs attempts made by the running tick
    slept,      \* per filter: backoff sleeps of the running tick, in ms
    ticks,      \* ticks started so far
    ev,         \* what the last listener step did
    pairs,      \* pairs: address -> row
    tokens,     \* tokens: address -> row
    swaps,      \* swaps: rows, unique by (tx_hash, log_index)
    holders,    \* token_holders: (token, wallet) -> row
    activity,   \* wallet_activity: rows, unique by (tx_hash, wallet, token, action)
    alerts,     \* alert_events, in insert order
    snapshots,  \* price_snapshots, in insert order
    batch,      \* rows of the running batch still to process
    ppc,        \* processor: "idle" (between batches) or "batch"
    fetches,    \* batches fetched so far
    faults,     \* statements that have failed so far
    pev,        \* what the last turn of the processor loop did
    tip         \* the chain's latest block while it stands still (0 where each tick draws its own)

----------------------------------------------------------------------------
(* Bounds of the model. *)
MaxTicks == 2       \* listener ticks started in one behaviour
MaxQueue == 2       \* raw logs in the queue when the processor starts
MaxBatches == 3     \* batches the processor fetches in one behaviour
MaxFaults == 2      \* statements of the processor that fail in one behaviour

(* Tips the RPC may report to a tick: the chain start, early blocks, and a  *)
(* block more than BLOCK_RANGE past them.                                  *)
TipValues == {0, 1, 2, 13}

(* Program constants. *)
RPC_DELAY_MS == 5000
MAX_RETRIES  == 3
BLOCK_RANGE  == 10
SYNC_KEY_LEN == 40
BATCH_SIZE   == 25

----------------------------------------------------------------------------
(* Strings are sequences of one-character strings. *)
UpperChars == <<"A","B","C","D","E","F","G","H","I","J","K","L","M","N","O","P","Q","R","S","T","U","V","W","X","Y","Z">>
LowerChars == <<"a","b","c","d","e","f","g","h","i","j","k","l","m","n","o","p","q","r","s","t","u","v","w","x","y","z">>

(* char::to_lowercase of each character that has an upper case *)
LowerOf ==
    [c \in {UpperChars[j] : j \in 1..Len(UpperChars)} |->
        LowerChars[CHOOSE j \in 1..Len(UpperChars) : UpperChars[j] = c]]

to_lowercase(s) ==
    [i \in 1..Len(s) |-> IF s[i] \in DOMAIN LowerOf THEN LowerOf[s[i]] ELSE s[i]]

contains(s, p) ==
    \E i \in 1..(Len(s) - Len(p) + 1) : SubSeq(s, i, i + Len(p) - 1) = p

strip_prefix_0x(s) ==
    IF Len(s) >= 2 /\ SubSeq(s, 1, 2) = <<"0","x">> THEN SubSeq(s, 3, Len(s)) ELSE s

PANCAKE_FACTORY == <<"0","x","c","A","1","4","3","C","e","3","2","F","e","7","8","f","1","f","7","0","1","9","d","7","d","5","5","1","a","6","4","0","2","f","C","5","3","5","0","c","7","3">>
TOPIC_PAIR_CREATED == <<"0","x","0","d","3","6","4","8","b","d","0","f","6","b","a","8","0","1","3","4","a","3","3","b","a","9","2","7","5","a","c","5","8","5","d","9","d","3","1","5","f","0","a","d","8","3","5","5","c","d","d","e","f","d","e","3","1","a","f","a","2","8","d","0","e","9">>
TOPIC_SWAP == <<"0","x","d","7","8","a","d","9","5","f","a","4","6","c","9","9","4","b","6","5","5","1","d","0","d","a","8","5","f","c","2","7","5","f","e","6","1","3","c","e","3","7","6","5","7","f","b","8","d","5","e","3","d","1","3","0","8","4","0","1","5","9","d","8","2","2">>
TOPIC_TRANSFER == <<"0","x","d","d","f","2","5","2","a","d","1","b","e","2","c","8","9","b","6","9","c","2","b","0","6","8","f","c","3","7","8","d","a","a","9","5","2","b","a","7","f","1","6","3","c","4","a","1","1","6","2","8","f","5","5","a","4","d","f","5","2","3","b","3","e","f">>
TOPIC_SYNC == <<"0","x","1","c","4","1","1","e","9","a","9","6","e","0","7","1","2","4","1","c","2","f","2","1","f","7","7","2","6","b","1","7","a","e","8","9","e","3","c","a","b","4","c","7","8","b","e","5","0","e","0","6","2","b","0","3","a","9","f","f","f","b","b","a","d","1">>
PAIR1 == <<"0","x","a","1","a","1","a","1","a","1","a","1","a","1","a","1","a","1","a","1","a","1","a","1","a","1","a","1","a","1","a","1","a","1","a","1","a","1","a","1","a","1">>
TOKEN1 == <<"0","x","b","1","b","1","b","1","b","1","b","1","b","1","b","1","b","1","b","1","b","1","b","1","b","1","b","1","b","1","b","1","b","1","b","1","b","1","b","1","b","1">>
WALLET1 == <<"0","x","c","1","c","1","c","1","c","1","c","1","c","1","c","1","c","1","c","1","c","1","c","1","c","1","c","1","c","1","c","1","c","1","c","1","c","1","c","1","c","1">>
PAIR2 == <<"0","x","a","2","a","2","a","2","a","2","a","2","a","2","a","2","a","2","a","2","a","2","a","2","a","2","a","2","a","2","a","2","a","2","a","2","a","2","a","2","a","2">>
PAIR3 == <<"0","x","a","3","a","3","a","3","a","3","a","3","a","3","a","3","a","3","a","3","a","3","a","3","a","3","a","3","a","3","a","3","a","3","a","3","a","3","a","3","a","3">>
PAIR4 == <<"0","x","a","4","a","4","a","4","a","4","a","4","a","4","a","4","a","4","a","4","a","4","a","4","a","4","a","4","a","4","a","4","a","4","a","4","a","4","a","4","a","4">>
PAIR5 == <<"0","x","a","5","a","5","a","5","a","5","a","5","a","5","a","5","a","5","a","5","a","5","a","5","a","5","a","5","a","5","a","5","a","5","a","5","a","5","a","5","a","5">>
TOKEN2 == <<"0","x","b","2","b","2","b","2","b","2","b","2","b","2","b","2","b","2","b","2","b","2","b","2","b","2","b","2","b","2","b","2","b","2","b","2","b","2","b","2","b","2">>
WBNB_ADDRESS == <<"0","x","b","b","4","C","d","B","9","C","B","d","3","6","B","0","1","b","D","1","c","B","a","E","B","F","2","D","e","0","8","d","9","1","7","3","b","c","0","9","5","c">>
BUSD_ADDRESS == <<"0","x","e","9","e","7","C","E","A","3","D","e","d","c","A","5","9","8","4","7","8","0","B","a","f","c","5","9","9","b","D","6","9","A","D","d","0","8","7","D","5","6">>
ZERO_ADDRESS == <<"0","x","0","0","0","0","0","0","0","0","0","0","0","0","0","0","0","0","0","0","0","0","0","0","0","0","0","0","0","0","0","0","0","0","0","0","0","0","0","0","0","0">>
DEAD_ADDRESS == <<"0","x","0","0","0","0","0","0","0","0","0","0","0","0","0","0","0","0","0","0","0","0","0","0","0","0","0","0","0","0","0","0","0","0","0","0","0","0","d","e","a","d">>

----------------------------------------------------------------------------
(* The listener's configured filters.  Filter 1 is the PairCreated listener *)
(* of main.rs; filter 2 watches the same contract for another topic; filter *)
(* 3 is the global Swap listener.                                           *)
FilterModes == <<
    [mode |-> "ByAddressAndTopic", address |-> PANCAKE_FACTORY,
     topic |-> TOPIC_PAIR_CREATED, name |-> "PairCreated"],
    [mode |-> "ByAddressAndTopic", address |-> to_lowercase(PANCAKE_FACTORY),
     topic |-> TOPIC_TRANSFER, name |-> "FactoryTransfer"],
    [mode |-> "ByTopic", address |-> <<>>,
     topic |-> TOPIC_SWAP, name |-> "Swap"] >>

Filters == 1..Len(FilterModes)

(* Error texts a transport error may carry (err.to_string()). *)
ErrMsgs == <<
    <<"H","T","T","P"," ","e","r","r","o","r"," ","4","2","9">>,
    <<"e","r","r","o","r"," ","c","o","d","e"," ","-","3","2","0","0","5",":"," ","l","i","m","i","t"," ","e","x","c","e","e","d","e","d">>,
    <<"T","o","o"," ","M","a","n","y"," ","R","e","q","u","e","s","t","s">>,
    <<"c","o","n","n","e","c","t","i","o","n"," ","r","e","f","u","s","e","d">>,
    <<"e","r","r","o","r"," ","c","o","d","e"," ","-","3","2","0","0","0",":"," ","h","e","a","d","e","r"," ","n","o","t"," ","f","o","u","n","d">> >>

is_rate_limited(err) ==
    LET err_str == to_lowercase(err) IN
        \/ contains(err_str, <<"4","2","9">>)
        \/ contains(err_str, <<"r","a","t","e"," ","l","i","m","i","t">>)
        \/ contains(err_str, <<"t","o","o"," ","m","a","n","y"," ","r","e","q","u","e","s","t","s">>)
        \/ contains(err_str, <<"-","3","2","0","0","5">>)
        \/ contains(err_str, <<"l","i","m","i","t"," ","e","x","c","e","e","d","e","d">>)

RECURSIVE Pow2(_)
Pow2(n) == IF n = 0 THEN 1 ELSE 2 * Pow2(n - 1)

(* Mutant of backoff_ms: the backoff grows linearly. *)
backoff_ms_linear(attempt) == RPC_DELAY_MS * (attempt + 1)

(* backoff_ms of attempt `attempt` (0-based) *)
backoff_ms(attempt) == RPC_DELAY_MS * Pow2(attempt)

get_sync_key(fm) ==
    CASE fm.mode = "ByAddress" ->
            to_lowercase(strip_prefix_0x(fm.address))
      [] fm.mode = "ByTopic" ->
            to_lowercase(SubSeq(strip_prefix_0x(fm.topic), 1, SYNC_KEY_LEN))
      [] fm.mode = "ByAddressAndTopic" ->
            to_lowercase(strip_prefix_0x(fm.address))

HexDigits == <<"0","1","2","3","4","5","6","7","8","9","a","b","c","d","e","f">>

HexVal(c) == (CHOOSE i \in 1..16 : HexDigits[i] = c) - 1

(* Address::from_str / FixedBytes::from_str: the bytes a hex string spells, *)
(* with or without the 0x prefix, in either case of the digits.            *)
from_str(s) ==
    LET h == to_lowercase(strip_prefix_0x(s)) IN
        [i \in 1..(Len(h) \div 2) |-> 16 * HexVal(h[2 * i - 1]) + HexVal(h[2 * i])]

(* utils::vec_to_hex: two lower-case hex digits per byte *)
vec_to_hex(bytes) ==
    [i \in 1..(2 * Len(bytes)) |->
        IF i % 2 = 1 THEN HexDigits[(bytes[(i + 1) \div 2] \div 16) + 1]
        ELSE HexDigits[(bytes[i \div 2] % 16) + 1]]

(* A 32-byte word holding an address: 12 zero bytes, then its 20 bytes. *)
AddressWord(a) == [i \in 1..12 |-> 0] \o from_str(a)

(* A 32-byte word holding a uint256, written as its high and low 128 bits;  *)
(* the low half counts units of 10^16 (0.01 of an 18-decimals token).       *)
U256(hi, lo) == [hi |-> hi, lo |-> lo]

(* The address and topic a filter mode selects on (<<>>: any). *)
FilterSelect ==
    [f \in Filters |->
        [address |-> IF FilterModes[f].mode \in {"ByAddress", "ByAddressAndTopic"}
                     THEN from_str(FilterModes[f].address) ELSE <<>>,
         topic0  |-> IF FilterModes[f].mode \in {"ByTopic", "ByAddressAndTopic"}
                     THEN from_str(FilterModes[f].topic) ELSE <<>>]]

build_filter(f, from_block, to_block) ==
    [from_block |-> from_block, to_block |-> to_block,
     address |-> FilterSelect[f].address, topic0 |-> FilterSelect[f].topic0]

(* The logs on chain, in block order: a pair is created, its token is      *)
(* transferred to a wallet, bought for 1 BNB and sold for 10 BNB, and the   *)
(* pair emits one Swap log whose data is cut short; the last log is the    *)
(* pair's Sync (reserves of 100 BNB and 10 000 000 tokens), an event no     *)
(* decoder knows.                                                          *)
Chain == <<
    [block |-> 2, address |-> from_str(PANCAKE_FACTORY),
     topics |-> <<from_str(TOPIC_PAIR_CREATED), AddressWord(WBNB_ADDRESS), AddressWord(TOKEN1)>>,
     data |-> <<AddressWord(PAIR1), U256(0, 1)>>,
     transaction_hash |-> 1, log_index |-> 0],
    [block |-> 4, address |-> from_str(TOKEN1),
     topics |-> <<from_str(TOPIC_TRANSFER), AddressWord(PAIR1), AddressWord(WALLET1)>>,
     data |-> <<U256(0, 1000)>>,
     transaction_hash |-> 2, log_index |-> 0],
    [block |-> 5, address |-> from_str(PAIR1),
     topics |-> <<from_str(TOPIC_SWAP), AddressWord(WALLET1), AddressWord(WALLET1)>>,
     data |-> <<U256(0, 100), U256(0, 0), U256(0, 0), U256(0, 1000)>>,
     transaction_hash |-> 3, log_index |-> 1],
    [block |-> 12, address |-> from_str(PAIR1),
     topics |-> <<from_str(TOPIC_SWAP), AddressWord(WALLET1), AddressWord(WALLET1)>>,
     data |-> <<U256(0, 0), U256(0, 5000), U256(0, 1000), U256(0, 0)>>,
     transaction_hash |-> 4, log_index |-> 0],
    [block |-> 13, address |-> from_str(PAIR1),
     topics |-> <<from_str(TOPIC_SWAP), AddressWord(WALLET1), AddressWord(WALLET1)>>,
     data |-> <<U256(0, 100), U256(0, 0), U256(0, 0)>>,
     transaction_hash |-> 5, log_index |-> 0],
    [block |-> 13, address |-> from_str(PAIR1),
     topics |-> <<from_str(TOPIC_SYNC)>>,
     data |-> <<U256(0, 10000), U256(0, 1000000000)>>,
     transaction_hash |-> 5, log_index |-> 1] >>

(* provider.get_logs(filter) when it answers Ok: the chain logs in the range *)
(* that match the filter, as indices into Chain.                            *)
get_logs(filter) ==
    SelectSeq([i \in 1..Len(Chain) |-> i],
        LAMBDA i :
            /\ Chain[i].block >= filter.from_block
            /\ Chain[i].block <= filter.to_block
            /\ (filter.address = <<>> \/ Chain[i].address = filter.address)
            /\ (filter.topic0 = <<>> \/ Chain[i].topics[1] = filter.topic0))

Min(a, b) == IF a <= b THEN a ELSE b

saturating_sub(a, b) == IF a >= b THEN a - b ELSE 0

(* Mutant of from_block_number: a filter without a synced block starts at   *)
(* the first block of the chain.                                            *)
from_block_number_genesis(last_synced, latest_block) ==
    IF last_synced = 0 THEN 0 ELSE last_synced + 1

from_block_number(last_synced, latest_block) ==
    IF last_synced = 0
    THEN saturating_sub(latest_block, BLOCK_RANGE)
    ELSE last_synced + 1

(* Mutant of to_block_number: the range is not capped at the tip. *)
to_block_number_uncapped(from_block, latest_block) == from_block + BLOCK_RANGE

to_block_number(from_block, latest_block) ==
    Min(from_block + BLOCK_RANGE, latest_block)

(* EvmSyncLogs::find_or_create_by_address *)
find_or_create_by_address(key, table) ==
    IF key \in DOMAIN table THEN table ELSE table @@ (key :> 0)

(* update_last_synced_block_number *)
update_last_synced_block_number(key, block_number, table) ==
    [table EXCEPT ![key] = block_number]

(* EvmLogs::create for each log that was saved, in order *)
RECURSIVE InsertLogs(_, _, _)
InsertLogs(q, id, logs) ==
    IF logs = <<>> THEN q
    ELSE InsertLogs(Append(q, [id |-> id, src |-> Head(logs)]), id + 1, Tail(logs))

Keep(logs, skip) ==
    SelectSeq([i \in 1..Len(logs) |-> <<i, logs[i]>>], LAMBDA p : p[1] \notin skip)

Saved(logs, skip) == [i \in 1..Len(Keep(logs, skip)) |-> Keep(logs, skip)[i][2]]

----------------------------------------------------------------------------
(* Listener: one tick is fetch_and_save_logs for one filter. *)

SyncKeys == [f \in Filters |-> get_sync_key(FilterModes[f])]

(* The evm_sync_logs row of a filter: rows are identified by their sync key; *)
(* a row is named here by the first filter whose key it is.                 *)
SyncRow ==
    [f \in Filters |->
        CHOOSE g \in Filters :
            /\ SyncKeys[g] = SyncKeys[f]
            /\ \A h \in Filters : SyncKeys[h] = SyncKeys[f] => g <= h]

RateLimitedMsgs == {e \in 1..Len(ErrMsgs) : is_rate_limited(ErrMsgs[e])}

NoEvent ==
    [f |-> 0, kind |-> "none", resp |-> 0, att |-> 0, slept |-> <<>>, polite |-> 0,
     last |-> 0, latest |-> 0, from |-> 0, to |-> 0]

(* Mutant of EndTick: the loop is left when the tick is over. *)
EndTick_Break(f) ==
    /\ pc' = [pc EXCEPT ![f] = "stopped"]
    /\ lastB' = [lastB EXCEPT ![f] = 0]
    /\ latestB' = [latestB EXCEPT ![f] = 0]
    /\ fromB' = [fromB EXCEPT ![f] = 0]
    /\ toB' = [toB EXCEPT ![f] = 0]
    /\ att' = [att EXCEPT ![f] = 0]
    /\ slept' = [slept EXCEPT ![f] = <<>>]

(* The tick of filter f is over: its locals are dropped. *)
EndTick(f) ==
    /\ pc' = [pc EXCEPT ![f] = "idle"]
    /\ lastB' = [lastB EXCEPT ![f] = 0]
    /\ latestB' = [latestB EXCEPT ![f] = 0]
    /\ fromB' = [fromB EXCEPT ![f] = 0]
    /\ toB' = [toB EXCEPT ![f] = 0]
    /\ att' = [att EXCEPT ![f] = 0]
    /\ slept' = [slept EXCEPT ![f] = <<>>]

(* The cursor row is found or created, then get_block_number fails: the tick *)
(* returns the error.                                                        *)
RpcDown(f) ==
    /\ pc[f] = "idle"
    /\ sync' = find_or_create_by_address(SyncRow[f], sync)
    /\ ev' = [NoEvent EXCEPT !.f = f, !.kind = "rpc_down", !.last = sync'[SyncRow[f]]]
    /\ UNCHANGED <<queue, nextId, pc, lastB, latestB, fromB, toB, att, slept>>

TickRpcDown(f) ==
    /\ ticks < MaxTicks
    /\ ticks' = ticks + 1
    /\ RpcDown(f)

(* Mutant of FullyIndexed: the tick goes on to its block range and its      *)
(* get_logs request although the cursor stands at the latest block.         *)
FullyIndexed_StillFetches(f, latest_block) ==
    /\ pc[f] = "idle"
    /\ sync' = find_or_create_by_address(SyncRow[f], sync)
    /\ latest_block = sync'[SyncRow[f]]
    /\ lastB' = [lastB EXCEPT ![f] = sync'[SyncRow[f]]]
    /\ latestB' = [latestB EXCEPT ![f] = latest_block]
    /\ fromB' = [fromB EXCEPT ![f] = from_block_number(sync'[SyncRow[f]], latest_block)]
    /\ toB' = [toB EXCEPT ![f] = to_block_number(fromB'[f], latest_block)]
    /\ ev' = [NoEvent EXCEPT !.f = f, !.kind = "fully_indexed",
                             !.last = sync'[SyncRow[f]], !.latest = latest_block]
    /\ pc' = [pc EXCEPT ![f] = "fetching"]
    /\ UNCHANGED <<queue, nextId, att, slept>>

(* latest_block == last_synced_block_number: "Fully indexed", return Ok. *)
FullyIndexed(f, latest_block) ==
    /\ pc[f] = "idle"
    /\ sync' = find_or_create_by_address(SyncRow[f], sync)
    /\ latest_block = sync'[SyncRow[f]]
    /\ ev' = [NoEvent EXCEPT !.f = f, !.kind = "fully_indexed",
                             !.last = sync'[SyncRow[f]], !.latest = latest_block]
    /\ UNCHANGED <<queue, nextId, pc, lastB, latestB, fromB, toB, att, slept>>

TickFullyIndexed(f) ==
    /\ ticks < MaxTicks
    /\ ticks' = ticks + 1
    /\ \E latest_block \in TipValues : FullyIndexed(f, latest_block)

(* The tick computes its block range and enters fetch_logs_with_retry. *)
Start(f, latest_block) ==
    /\ pc[f] = "idle"
    /\ sync' = find_or_create_by_address(SyncRow[f], sync)
    /\ latest_block # sync'[SyncRow[f]]
    /\ lastB' = [lastB EXCEPT ![f] = sync'[SyncRow[f]]]
    /\ latestB' = [latestB EXCEPT ![f] = latest_block]
    /\ fromB' = [fromB EXCEPT ![f] = from_block_number(sync'[SyncRow[f]], latest_block)]
    /\ toB' = [toB EXCEPT ![f] = to_block_number(fromB'[f], latest_block)]
    /\ ev' = [NoEvent EXCEPT !.f = f, !.kind = "start",
                             !.last = sync'[SyncRow[f]], !.latest = latest_block,
                             !.from = fromB'[f], !.to = toB'[f]]
    /\ pc' = [pc EXCEPT ![f] = "fetching"]
    /\ UNCHANGED <<queue, nextId, att, slept>>

TickStart(f) ==
    /\ ticks < MaxTicks
    /\ ticks' = ticks + 1
    /\ \E latest_block \in TipValues : Start(f, latest_block)

(* get_logs answers with a rate-limit error: back off, then try again or,   *)
(* after the last attempt, fail with MaxRetriesExceeded.                    *)
AttemptRateLimited(f) ==
    /\ pc[f] = "fetching"
    /\ \E e \in RateLimitedMsgs :
        ev' = [NoEvent EXCEPT !.f = f, !.resp = e, !.att = att[f] + 1,
                 !.kind = IF att[f] + 1 >= MAX_RETRIES THEN "max_retries" ELSE "rate_limited",
                 !.slept = Append(slept[f], backoff_ms(att[f])),
                 !.last = lastB[f], !.latest = latestB[f], !.from = fromB[f], !.to = toB[f]]
    /\ IF att[f] + 1 >= MAX_RETRIES
       THEN EndTick(f)
       ELSE /\ slept' = [slept EXCEPT ![f] = Append(@, backoff_ms(att[f]))]
            /\ att' = [att EXCEPT ![f] = @ + 1]
            /\ UNCHANGED <<pc, lastB, latestB, fromB, toB>>
    /\ UNCHANGED <<sync, queue, nextId, ticks>>

(* Mutant of AttemptError: every error is backed off and retried. *)
AttemptError_Retried(f) ==
    /\ pc[f] = "fetching"
    /\ \E e \in (1..Len(ErrMsgs)) \ RateLimitedMsgs :
        ev' = [NoEvent EXCEPT !.f = f, !.resp = e, !.att = att[f] + 1,
                 !.kind = IF att[f] + 1 >= MAX_RETRIES THEN "max_retries" ELSE "rate_limited",
                 !.slept = Append(slept[f], backoff_ms(att[f])),
                 !.last = lastB[f], !.latest = latestB[f], !.from = fromB[f], !.to = toB[f]]
    /\ IF att[f] + 1 >= MAX_RETRIES
       THEN EndTick(f)
       ELSE /\ slept' = [slept EXCEPT ![f] = Append(@, backoff_ms(att[f]))]
            /\ att' = [att EXCEPT ![f] = @ + 1]
            /\ UNCHANGED <<pc, lastB, latestB, fromB, toB>>
    /\ UNCHANGED <<sync, queue, nextId, ticks>>

(* get_logs answers with another error: return it immediately. *)
AttemptError(f) ==
    /\ pc[f] = "fetching"
    /\ \E e \in (1..Len(ErrMsgs)) \ RateLimitedMsgs :
        ev' = [NoEvent EXCEPT !.f = f, !.resp = e, !.att = att[f] + 1,
                 !.kind = "rpc_error", !.slept = slept[f],
                 !.last = lastB[f], !.latest = latestB[f], !.from = fromB[f], !.to = toB[f]]
    /\ EndTick(f)
    /\ UNCHANGED <<sync, queue, nextId, ticks>>

(* Mutant of SaveLogs: the statements run outside the transaction, so they *)
(* stay when the commit fails.                                             *)
SaveLogs_Autocommit(f, logs, skip, upd, commit) ==
    /\ queue' = InsertLogs(queue, nextId, Saved(logs, skip))
    /\ nextId' = nextId + Len(Saved(logs, skip))
    /\ sync' = IF upd
               THEN update_last_synced_block_number(SyncRow[f], toB[f], sync)
               ELSE sync

(* The transaction of a tick: the logs whose insert did not fail, and the   *)
(* cursor update unless it failed, take effect at commit; nothing does when *)
(* the transaction does not commit.                                         *)
SaveLogs(f, logs, skip, upd, commit) ==
    IF commit
    THEN /\ queue' = InsertLogs(queue, nextId, Saved(logs, skip))
         /\ nextId' = nextId + Len(Saved(logs, skip))
         /\ sync' = IF upd
                    THEN update_last_synced_block_number(SyncRow[f], toB[f], sync)
                    ELSE sync
    ELSE UNCHANGED <<queue, nextId, sync>>

TxKind(skip, upd, commit) ==
    IF ~commit THEN "rolled_back"
    ELSE IF upd /\ skip = {} THEN "committed" ELSE "committed_partial"

(* get_logs answers Ok: politeness sleep, then the logs and the cursor are  *)
(* written in one transaction.                                              *)
AttemptOk(f) ==
    /\ pc[f] = "fetching"
    /\ LET logs == get_logs(build_filter(f, fromB[f], toB[f])) IN
        \E skip \in SUBSET (1..Len(logs)), upd \in BOOLEAN, commit \in BOOLEAN :
            /\ SaveLogs(f, logs, skip, upd, commit)
            /\ ev' = [NoEvent EXCEPT !.f = f, !.att = att[f] + 1,
                        !.kind = TxKind(skip, upd, commit), !.slept = slept[f],
                        !.polite = RPC_DELAY_MS, !.last = lastB[f], !.latest = latestB[f], !.from = fromB[f], !.to = toB[f]]
    /\ EndTick(f)
    /\ UNCHANGED ticks

ListenerStep(f) ==
    \/ TickRpcDown(f)
    \/ TickFullyIndexed(f)
    \/ TickStart(f)
    \/ AttemptRateLimited(f)
    \/ AttemptError(f)
    \/ AttemptOk(f)

----------------------------------------------------------------------------
(* Processor: decoders (processor/src/events). *)

(* Option values: <<>> is None, <<x>> is Some(x). *)
None == <<>>
Some(x) == <<x>>
unwrap_or(o, d) == IF o = <<>> THEN d ELSE o[1]

(* Option::or *)
or(o, other) == IF o = <<>> THEN other ELSE o

(* The decimals the PairCreated handler writes when the token reports none *)
DEFAULT_DECIMALS == 18

COALESCE(a, b) == IF a # <<>> THEN a ELSE b

(* i64::to_string: decimal digits *)
RECURSIVE to_string(_)
to_string(n) ==
    IF n < 10 THEN <<HexDigits[n + 1]>>
    ELSE to_string(n \div 10) \o <<HexDigits[(n % 10) + 1]>>

RECURSIVE DecimalValue(_)
DecimalValue(s) ==
    IF s = <<>> THEN 0
    ELSE 10 * DecimalValue(SubSeq(s, 1, Len(s) - 1)) + HexVal(s[Len(s)])

(* s.parse::<i64>().unwrap_or(0) *)
parse_i64_or_0(s) ==
    IF s # <<>> /\ \A i \in 1..Len(s) : \E d \in 1..10 : HexDigits[d] = s[i]
    THEN DecimalValue(s) ELSE 0

(* format!("0x{}", utils::vec_to_hex(bytes)) *)
Hex0x(bytes) == <<"0","x">> \o vec_to_hex(bytes)

(* log.data.len(): whole 32-byte words *)
DataLen(log) == 32 * Len(log.data)

CHANNEL_NEW_PAIR == "chain:events:new_pair"
CHANNEL_SWAP     == "chain:events:swap"
CHANNEL_TRANSFER == "chain:events:transfer"

DecodeErr(kind) == [ok |-> FALSE, err |-> kind]

(* events::pair_created::decode *)
pair_created_decode(log) ==
    IF Len(log.topics) < 3 THEN DecodeErr("EventDecode")
    ELSE IF DataLen(log) < 32 THEN DecodeErr("EventDecode")
    ELSE [ok |-> TRUE,
          event |-> [token0  |-> Hex0x(SubSeq(log.topics[2], 13, 32)),
                     token1  |-> Hex0x(SubSeq(log.topics[3], 13, 32)),
                     pair    |-> Hex0x(SubSeq(log.data[1], 13, 32)),
                     block   |-> to_string(log.block),
                     factory |-> Hex0x(log.address)]]

(* events::swap::decode; the amounts stay 32-byte words (hex strings) *)
swap_decode(log) ==
    IF Len(log.topics) < 3 THEN DecodeErr("EventDecode")
    ELSE IF DataLen(log) < 128 THEN DecodeErr("EventDecode")
    ELSE [ok |-> TRUE,
          event |-> [pair        |-> Hex0x(log.address),
                     sender      |-> Hex0x(SubSeq(log.topics[2], 13, 32)),
                     to          |-> Hex0x(SubSeq(log.topics[3], 13, 32)),
                     amount0_in  |-> log.data[1],
                     amount1_in  |-> log.data[2],
                     amount0_out |-> log.data[3],
                     amount1_out |-> log.data[4],
                     block       |-> to_string(log.block)]]

(* events::transfer::decode *)
transfer_decode(log) ==
    IF Len(log.topics) < 3 THEN DecodeErr("EventDecode")
    ELSE IF DataLen(log) < 32 THEN DecodeErr("EventDecode")
    ELSE [ok |-> TRUE,
          event |-> [token   |-> Hex0x(log.address),
                     from    |-> Hex0x(SubSeq(log.topics[2], 13, 32)),
                     to      |-> Hex0x(SubSeq(log.topics[3], 13, 32)),
                     value   |-> log.data[1],
                     block   |-> to_string(log.block),
                     tx_hash |-> log.transaction_hash]]

(* topic0 of a raw log as process_logs and decode_event format it *)
Topic0(log) == Hex0x(log.topics[1])

(* Mutant of decode_event: a topic no decoder knows is reported as a decode *)
(* error of an event.                                                       *)
decode_event_one_error(log) ==
    CASE Topic0(log) = TOPIC_PAIR_CREATED ->
            IF pair_created_decode(log).ok
            THEN [ok |-> TRUE, channel |-> CHANNEL_NEW_PAIR]
            ELSE pair_created_decode(log)
      [] Topic0(log) = TOPIC_SWAP ->
            IF swap_decode(log).ok
            THEN [ok |-> TRUE, channel |-> CHANNEL_SWAP]
            ELSE swap_decode(log)
      [] Topic0(log) = TOPIC_TRANSFER ->
            IF transfer_decode(log).ok
            THEN [ok |-> TRUE, channel |-> CHANNEL_TRANSFER]
            ELSE transfer_decode(log)
      [] OTHER -> DecodeErr("EventDecode")

(* events::decode_event: the channel of the decoded event, or the error *)
decode_event(log) ==
    CASE Topic0(log) = TOPIC_PAIR_CREATED ->
            IF pair_created_decode(log).ok
            THEN [ok |-> TRUE, channel |-> CHANNEL_NEW_PAIR]
            ELSE pair_created_decode(log)
      [] Topic0(log) = TOPIC_SWAP ->
            IF swap_decode(log).ok
            THEN [ok |-> TRUE, channel |-> CHANNEL_SWAP]
            ELSE swap_decode(log)
      [] Topic0(log) = TOPIC_TRANSFER ->
            IF transfer_decode(log).ok
            THEN [ok |-> TRUE, channel |-> CHANNEL_TRANSFER]
            ELSE transfer_decode(log)
      [] OTHER -> DecodeErr("UnknownEventTopic")

----------------------------------------------------------------------------
(* Processor: the relational store (libs/indexer-db/src/entity). *)

(* Address strings the store may hold, as the decoders format them.  A row  *)
(* keeps the position of its address in this book.                          *)
Addresses == <<WBNB_ADDRESS, BUSD_ADDRESS, PANCAKE_FACTORY, PAIR1, TOKEN1, WALLET1,
               ZERO_ADDRESS, DEAD_ADDRESS, PAIR2, PAIR3, PAIR4, PAIR5, TOKEN2>>

AddrBook == [i \in DOMAIN Addresses |-> Hex0x(from_str(Addresses[i]))]

IndexIn(book, s) == CHOOSE i \in DOMAIN book : book[i] = s

AddrId(s) == IndexIn(AddrBook, s)

(* Mutant of Pair_create: a plain INSERT into a table with no unique key on  *)
(* the address: a second insert for an address adds a second row (kept      *)
(* under address + Len(AddrBook)).                                          *)
Pair_create_plain_insert(new_pair, table) ==
    table @@ ((IF new_pair.address \in DOMAIN table
               THEN new_pair.address + Len(AddrBook) ELSE new_pair.address) :>
            [token0_address |-> new_pair.token0_address,
             token1_address |-> new_pair.token1_address,
             factory_address |-> new_pair.factory_address,
             base_token_index |-> Some(new_pair.base_token_index),
             block_number |-> new_pair.block_number,
             reserve0 |-> None, reserve1 |-> None])

(* Pair::create: INSERT ... ON CONFLICT (address) DO NOTHING *)
Pair_create(new_pair, table) ==
    IF new_pair.address \in DOMAIN table THEN table
    ELSE table @@ (new_pair.address :>
            [token0_address |-> new_pair.token0_address,
             token1_address |-> new_pair.token1_address,
             factory_address |-> new_pair.factory_address,
             base_token_index |-> Some(new_pair.base_token_index),
             block_number |-> new_pair.block_number,
             reserve0 |-> None, reserve1 |-> None])

(* Pair::find_by_address *)
Pair_find_by_address(address, table) ==
    IF address \in DOMAIN table THEN Some(table[address]) ELSE None

(* Pair::update_reserves: UPDATE pairs SET reserve0 = $2, reserve1 = $3      *)
(* WHERE address = $1                                                        *)
Pair_update_reserves(address, reserve0, reserve1, table) ==
    IF address \notin DOMAIN table THEN table
    ELSE [table EXCEPT ![address] =
            [@ EXCEPT !.reserve0 = Some(reserve0), !.reserve1 = Some(reserve1)]]

(* Pair::get_token_address *)
get_token_address(pair) ==
    CASE pair.base_token_index = Some(0) -> pair.token1_address
      [] pair.base_token_index = Some(1) -> pair.token0_address
      [] OTHER -> pair.token0_address

(* Pair::get_base_address *)
get_base_address(pair) ==
    CASE pair.base_token_index = Some(0) -> pair.token0_address
      [] pair.base_token_index = Some(1) -> pair.token1_address
      [] OTHER -> pair.token1_address

(* Token::create: INSERT ... ON CONFLICT (address) DO UPDATE with COALESCE  *)
(* of the new and the stored name, symbol, decimals, total_supply and       *)
(* pair_address; the columns no statement names are NULL in a new row.      *)
Token_create(new_token, table) ==
    IF new_token.address \in DOMAIN table
    THEN [table EXCEPT ![new_token.address] =
            [@ EXCEPT !.name = COALESCE(new_token.name, @),
                      !.symbol = COALESCE(new_token.symbol, @),
                      !.decimals = COALESCE(new_token.decimals, @),
                      !.total_supply = COALESCE(new_token.total_supply, @),
                      !.pair_address = COALESCE(new_token.pair_address, @)]]
    ELSE table @@ (new_token.address :>
            [name |-> new_token.name, symbol |-> new_token.symbol,
             decimals |-> new_token.decimals,
             total_supply |-> new_token.total_supply,
             pair_address |-> new_token.pair_address,
             block_number |-> new_token.block_number,
             price_change_1h |-> None, liquidity_usd |-> None,
             volume_1h_usd |-> None, volume_24h_usd |-> None,
             trades_1h |-> None, trades_24h |-> None,
             buys_1h |-> None, sells_1h |-> None,
             holder_count |-> None, holder_count_1h_ago |-> None,
             top_10_holder_percent |-> None, dev_holdings_percent |-> None,
             lp_locked |-> None, lp_lock_percent |-> None,
             ownership_renounced |-> None,
             bee_score |-> None, safety_score |-> None, traction_score |-> None])

(* Token::find_by_address *)
Token_find_by_address(address, table) ==
    IF address \in DOMAIN table THEN Some(table[address]) ELSE None

(* Mutant of increment_trade_count: a trade is counted on both sides. *)
increment_trade_count_both_sides(address, is_buy, amount_usd, table) ==
    IF address \notin DOMAIN table THEN table
    ELSE [table EXCEPT ![address] =
            [@ EXCEPT !.trades_1h = Some(unwrap_or(@, 0) + 1),
                      !.trades_24h = Some(unwrap_or(@, 0) + 1),
                      !.buys_1h = Some(unwrap_or(@, 0) + 1),
                      !.sells_1h = Some(unwrap_or(@, 0) + 1),
                      !.volume_1h_usd = Some(unwrap_or(@, 0) + amount_usd),
                      !.volume_24h_usd = Some(unwrap_or(@, 0) + amount_usd)]]

(* Token::increment_trade_count: UPDATE tokens SET each counter =            *)
(* COALESCE(counter, 0) + its increment WHERE address = $1                   *)
increment_trade_count(address, is_buy, amount_usd, table) ==
    IF address \notin DOMAIN table THEN table
    ELSE [table EXCEPT ![address] =
            [@ EXCEPT !.trades_1h = Some(unwrap_or(@, 0) + 1),
                      !.trades_24h = Some(unwrap_or(@, 0) + 1),
                      !.buys_1h = Some(unwrap_or(@, 0) + (IF is_buy THEN 1 ELSE 0)),
                      !.sells_1h = Some(unwrap_or(@, 0) + (IF is_buy THEN 0 ELSE 1)),
                      !.volume_1h_usd = Some(unwrap_or(@, 0) + amount_usd),
                      !.volume_24h_usd = Some(unwrap_or(@, 0) + amount_usd)]]

(* Token::update_bee_score *)
update_bee_score(address, bee_score, safety_score, traction_score, table) ==
    IF address \notin DOMAIN table THEN table
    ELSE [table EXCEPT ![address] =
            [@ EXCEPT !.bee_score = Some(bee_score),
                      !.safety_score = Some(safety_score),
                      !.traction_score = Some(traction_score)]]

(* Token::update_price_metrics: of its columns the row keeps liquidity_usd *)
update_price_metrics(address, liquidity_usd, table) ==
    IF address \notin DOMAIN table THEN table
    ELSE [table EXCEPT ![address] = [@ EXCEPT !.liquidity_usd = Some(liquidity_usd)]]

(* Token::update_holder_metrics *)
update_holder_metrics(address, holder_count, top_10_percent, dev_percent, table) ==
    IF address \notin DOMAIN table THEN table
    ELSE [table EXCEPT ![address] =
            [@ EXCEPT !.holder_count = Some(holder_count),
                      !.top_10_holder_percent = Some(top_10_percent),
                      !.dev_holdings_percent = Some(dev_percent)]]

(* Token::update_lp_lock *)
update_lp_lock(address, lp_locked, lp_lock_percent, table) ==
    IF address \notin DOMAIN table THEN table
    ELSE [table EXCEPT ![address] =
            [@ EXCEPT !.lp_locked = Some(lp_locked),
                      !.lp_lock_percent = Some(lp_lock_percent)]]

(* Token::to_metrics *)
to_metrics(token) ==
    [liquidity_usd |-> unwrap_or(token.liquidity_usd, 0),
     lp_locked |-> unwrap_or(token.lp_locked, FALSE),
     lp_lock_percent |-> unwrap_or(token.lp_lock_percent, 0),
     top_10_holder_percent |-> unwrap_or(token.top_10_holder_percent, 100),
     dev_holdings_percent |-> unwrap_or(token.dev_holdings_percent, 100),
     ownership_renounced |-> unwrap_or(token.ownership_renounced, FALSE),
     volume_1h_usd |-> unwrap_or(token.volume_1h_usd, 0),
     trades_1h |-> unwrap_or(token.trades_1h, 0),
     holder_count |-> unwrap_or(token.holder_count, 0),
     holder_count_1h_ago |-> unwrap_or(token.holder_count_1h_ago, 0),
     price_change_1h |-> unwrap_or(token.price_change_1h, 0),
     buys_1h |-> unwrap_or(token.buys_1h, 0),
     sells_1h |-> unwrap_or(token.sells_1h, 0)]

(* Swap::create: INSERT ... ON CONFLICT (tx_hash, log_index) DO NOTHING *)
Swap_create(new_swap, table) ==
    IF \E s \in table : s.tx_hash = new_swap.tx_hash /\ s.log_index = new_swap.log_index
    THEN table
    ELSE table \cup {new_swap}

(* Mutant of TokenHolder_upsert: the balance of the new holder is added to  *)
(* the stored one.                                                          *)
TokenHolder_upsert_adds_balance(holder, table) ==
    LET key == <<holder.token_address, holder.wallet_address>> IN
    IF key \in DOMAIN table
    THEN [table EXCEPT ![key] =
            [@ EXCEPT !.balance = @ + holder.balance,
                      !.is_dev = @ \/ holder.is_dev,
                      !.is_sniper = @ \/ holder.is_sniper,
                      !.is_contract = @ \/ holder.is_contract,
                      !.first_buy_block = COALESCE(@, holder.first_buy_block)]]
    ELSE table @@ (key :>
            [balance |-> holder.balance, is_dev |-> holder.is_dev,
             is_sniper |-> holder.is_sniper, is_contract |-> holder.is_contract,
             first_buy_block |-> holder.first_buy_block])

(* Mutant of TokenHolder_upsert: the flags of the new holder replace the    *)
(* stored ones.                                                             *)
TokenHolder_upsert_replaces_flags(holder, table) ==
    table @@ (<<holder.token_address, holder.wallet_address>> :>
            [balance |-> holder.balance, is_dev |-> holder.is_dev,
             is_sniper |-> holder.is_sniper, is_contract |-> holder.is_contract,
             first_buy_block |-> holder.first_buy_block])

(* TokenHolder::upsert: balance replaced, flags OR'd, first_buy_block kept *)
TokenHolder_upsert(holder, table) ==
    LET key == <<holder.token_address, holder.wallet_address>> IN
    IF key \in DOMAIN table
    THEN [table EXCEPT ![key] =
            [@ EXCEPT !.balance = holder.balance,
                      !.is_dev = @ \/ holder.is_dev,
                      !.is_sniper = @ \/ holder.is_sniper,
                      !.is_contract = @ \/ holder.is_contract,
                      !.first_buy_block = COALESCE(@, holder.first_buy_block)]]
    ELSE table @@ (key :>
            [balance |-> holder.balance, is_dev |-> holder.is_dev,
             is_sniper |-> holder.is_sniper, is_contract |-> holder.is_contract,
             first_buy_block |-> holder.first_buy_block])

(* TokenHolder::mark_as_dev *)
mark_as_dev(token_address, wallet_address, table) ==
    IF <<token_address, wallet_address>> \in DOMAIN table
    THEN [table EXCEPT ![<<token_address, wallet_address>>].is_dev = TRUE]
    ELSE table

(* TokenHolder::mark_as_sniper *)
mark_as_sniper(token_address, wallet_address, table) ==
    IF <<token_address, wallet_address>> \in DOMAIN table
    THEN [table EXCEPT ![<<token_address, wallet_address>>].is_sniper = TRUE]
    ELSE table

(* TokenHolder::find_sniper_holders: the wallets of the rows *)
find_sniper_holders(token_address, table) ==
    {k[2] : k \in {h \in DOMAIN table : h[1] = token_address /\ table[h].is_sniper}}

(* TokenHolder::find_dev_holders: the wallets of the rows *)
find_dev_holders(token_address, table) ==
    {k[2] : k \in {h \in DOMAIN table : h[1] = token_address /\ table[h].is_dev}}

(* WalletActivity::create: INSERT ... ON CONFLICT (tx_hash, wallet_address,  *)
(* token_address, action) DO NOTHING                                         *)
WalletActivity_create(a, table) ==
    IF \E r \in table : /\ r.tx_hash = a.tx_hash
                        /\ r.wallet_address = a.wallet_address
                        /\ r.token_address = a.token_address
                        /\ r.action = a.action
    THEN table
    ELSE table \cup {a}

(* AlertEvent::create: a plain INSERT *)
AlertEvent_create(alert, table) == Append(table, alert)

----------------------------------------------------------------------------
(* Processor: BeeScore (processor/src/scoring/bee_score.rs).  Money is in   *)
(* whole USD and percentages are whole numbers, so the float comparisons    *)
(* of the source are comparisons of integers here.                          *)

(* Mutant of calculate_safety: the third tier of the distribution rubric    *)
(* takes its upper bound in, so top-10 holdings of 80 percent score 5.      *)
calculate_safety_inclusive(metrics) ==
    LET liq_score == CASE metrics.liquidity_usd >= 100000 -> 15
                       [] metrics.liquidity_usd >= 50000 -> 10
                       [] metrics.liquidity_usd >= 10000 -> 5
                       [] OTHER -> 0
        lock_score == IF ~metrics.lp_locked THEN 0
                      ELSE CASE metrics.lp_lock_percent >= 90 -> 15
                             [] metrics.lp_lock_percent >= 50 -> 10
                             [] OTHER -> 5
        dist_score == CASE metrics.top_10_holder_percent < 40 -> 15
                        [] metrics.top_10_holder_percent < 60 -> 10
                        [] metrics.top_10_holder_percent <= 80 -> 5
                        [] OTHER -> 0
        dev_score == CASE metrics.dev_holdings_percent < 5 -> 10
                       [] metrics.dev_holdings_percent < 10 -> 7
                       [] metrics.dev_holdings_percent < 20 -> 3
                       [] OTHER -> 0
        contract_score == IF metrics.ownership_renounced THEN 5 ELSE 0
    IN liq_score + lock_score + dist_score + dev_score + contract_score

calculate_safety(metrics) ==
    LET liq_score == CASE metrics.liquidity_usd >= 100000 -> 15
                       [] metrics.liquidity_usd >= 50000 -> 10
                       [] metrics.liquidity_usd >= 10000 -> 5
                       [] OTHER -> 0
        lock_score == IF ~metrics.lp_locked THEN 0
                      ELSE CASE metrics.lp_lock_percent >= 90 -> 15
                             [] metrics.lp_lock_percent >= 50 -> 10
                             [] OTHER -> 5
        dist_score == CASE metrics.top_10_holder_percent < 40 -> 15
                        [] metrics.top_10_holder_percent < 60 -> 10
                        [] metrics.top_10_holder_percent < 80 -> 5
                        [] OTHER -> 0
        dev_score == CASE metrics.dev_holdings_percent < 5 -> 10
                       [] metrics.dev_holdings_percent < 10 -> 7
                       [] metrics.dev_holdings_percent < 20 -> 3
                       [] OTHER -> 0
        contract_score == IF metrics.ownership_renounced THEN 5 ELSE 0
    IN liq_score + lock_score + dist_score + dev_score + contract_score

(* i32 arithmetic of a build without overflow checks: the sum and the       *)
(* difference wrap modulo 2^32.  The cases are written so that no           *)
(* intermediate value leaves the i32 range.                                 *)
I32_MAX == 2147483647
I32_MIN == -I32_MAX - 1

add_overflows(a, b) == (b > 0 /\ a > I32_MAX - b) \/ (b < 0 /\ a < I32_MIN - b)

sub_overflows(a, b) == (b > 0 /\ a < I32_MIN + b) \/ (b < 0 /\ a > I32_MAX + b)

wrapping_add(a, b) ==
    CASE b > 0 /\ a > I32_MAX - b -> (a + I32_MIN) + (b + I32_MIN)
      [] b < 0 /\ a < I32_MIN - b -> (a + I32_MAX + 1) + (b + I32_MAX + 1)
      [] OTHER -> a + b

wrapping_sub(a, b) ==
    CASE b > 0 /\ a < I32_MIN + b -> (a + I32_MAX + 1) + (I32_MAX - b + 1)
      [] b < 0 /\ a > I32_MAX + b -> (a + I32_MIN) + (I32_MIN - b)
      [] OTHER -> a - b

(* The i32 operations of calculate_traction that a build with overflow     *)
(* checks panics on: the holder difference and the trade total.             *)
calculate_overflows(metrics) ==
    \/ /\ metrics.holder_count_1h_ago > 0
       /\ sub_overflows(metrics.holder_count, metrics.holder_count_1h_ago)
    \/ add_overflows(metrics.buys_1h, metrics.sells_1h)

calculate_traction(metrics) ==
    LET liq == metrics.liquidity_usd
        vol == IF liq > 0 THEN metrics.volume_1h_usd ELSE 0
        \* vol_ratio = vol / liq against 0.5, 2.0, 0.2, 3.0, 0.1
        vol_score == IF liq <= 0 THEN 0
                     ELSE CASE 2 * vol >= liq /\ vol <= 2 * liq -> 12
                            [] 5 * vol >= liq /\ vol <= 3 * liq -> 8
                            [] 10 * vol >= liq -> 4
                            [] OTHER -> 0
        trades_score == CASE metrics.trades_1h >= 100 -> 8
                          [] metrics.trades_1h >= 50 -> 6
                          [] metrics.trades_1h >= 20 -> 4
                          [] metrics.trades_1h >= 5 -> 2
                          [] OTHER -> 0
        ago == metrics.holder_count_1h_ago
        \* growth = (holder_count - ago) / ago * 100 against 20, 10, 5, 0:
        \* gained / base >= 1/5, 1/10, 1/20 as gained >= ceil(base / 5), ...
        gained == IF ago > 0 THEN wrapping_sub(metrics.holder_count, ago) ELSE 0
        base == IF ago > 0 THEN ago ELSE 1
        growth_score == CASE gained >= (base - 1) \div 5 + 1 -> 8
                          [] gained >= (base - 1) \div 10 + 1 -> 6
                          [] gained >= (base - 1) \div 20 + 1 -> 4
                          [] gained > 0 -> 2
                          [] OTHER -> 0
        p == metrics.price_change_1h
        price_score == CASE p >= 5 /\ p <= 100 -> 6
                         [] p >= 0 /\ p <= 200 -> 4
                         [] p >= -20 -> 2
                         [] p < -50 -> 0
                         [] OTHER -> 1
        total_trades == wrapping_add(metrics.buys_1h, metrics.sells_1h)
        \* buy_ratio = buys / total_trades (0.5 without trades) against 0.4, 0.7, 0.3, 0.8, 0.2
        buys == IF total_trades > 0 THEN metrics.buys_1h ELSE 1
        all == IF total_trades > 0 THEN total_trades ELSE 2
        balance_score == CASE 10 * buys >= 4 * all /\ 10 * buys <= 7 * all -> 6
                           [] 10 * buys >= 3 * all /\ 10 * buys <= 8 * all -> 4
                           [] 10 * buys >= 2 * all -> 2
                           [] OTHER -> 0
    IN vol_score + trades_score + growth_score + price_score + balance_score

(* calculate with the safety score counted twice in the total *)
calculate_safety_twice(metrics) ==
    [total |-> 2 * calculate_safety(metrics) + calculate_traction(metrics),
     safety_score |-> calculate_safety(metrics),
     traction_score |-> calculate_traction(metrics)]

(* BeeScoreCalculator::calculate *)
calculate(metrics) ==
    [total |-> calculate_safety(metrics) + calculate_traction(metrics),
     safety_score |-> calculate_safety(metrics),
     traction_score |-> calculate_traction(metrics)]

----------------------------------------------------------------------------
(* Processor: handlers (processor/src/handlers).  A handler takes the store *)
(* db = [pairs, tokens, swaps, holders, activity, alerts, ...] and the set F of  *)
(* its statements that fail in this run, and gives its result and the      *)
(* store it leaves.                                                         *)

BNB_PRICE_USD       == 600
WHALE_THRESHOLD_USD == 5000
UNITS_PER_TOKEN     == 100      \* amount units in one token of 18 decimals
SNIPER_BLOCKS       == 2
HIGH_SCORE          == 80

(* HandlerContext::is_wbnb, is_busd, is_base_token *)
is_wbnb(address) == to_lowercase(address) = to_lowercase(WBNB_ADDRESS)
is_busd(address) == to_lowercase(address) = to_lowercase(BUSD_ADDRESS)
is_base_token(address) == is_wbnb(address) \/ is_busd(address)

(* hex_to_bigdecimal: the word parsed as u128; 0 when it does not fit *)
hex_to_bigdecimal(hex) == IF hex.hi = 0 THEN hex.lo ELSE 0

(* What fetch_token_metadata may bring back for a token. *)
MetaValues == {
    [name |-> None, symbol |-> None, decimals |-> None, total_supply |-> None],
    [name |-> Some(<<"T","o","k","e","n","1">>), symbol |-> Some(<<"T","O","K">>),
     decimals |-> Some(9), total_supply |-> Some(1000000)] }

HandlerOk(db) == [result |-> "Ok", db |-> db]
HandlerErr(db) == [result |-> "Err", db |-> db]

(* handlers::pair_created::handle, from Pair::create on: the pair, the      *)
(* token and the new_token alert                                            *)
pair_created_persist(event, base_index, token_address, pair_address, block_number, meta, F, db) ==
    LET new_pair == [address |-> pair_address,
                     token0_address |-> AddrId(event.token0),
                     token1_address |-> AddrId(event.token1),
                     factory_address |-> AddrId(event.factory),
                     base_token_index |-> base_index,
                     block_number |-> block_number]
        new_token_record == [address |-> token_address,
                             name |-> meta.name, symbol |-> meta.symbol,
                             decimals |-> or(meta.decimals, Some(DEFAULT_DECIMALS)),
                             total_supply |-> meta.total_supply,
                             pair_address |-> Some(pair_address),
                             block_number |-> Some(block_number)]
        created == "token_create" \notin F
        tokens1 == IF created THEN Token_create(new_token_record, db.tokens)
                   ELSE db.tokens
        alert == [alert_type |-> "new_token",
                  token_address |-> Some(token_address),
                  token_symbol |-> IF created THEN tokens1[token_address].symbol ELSE None,
                  wallet_address |-> None, bee_score |-> None, amount_usd |-> None]
    IN HandlerOk([db EXCEPT
            !.pairs = IF "pair_create" \in F THEN @ ELSE Pair_create(new_pair, @),
            !.tokens = tokens1,
            !.alerts = IF created /\ "alert_create" \notin F
                       THEN AlertEvent_create(alert, @) ELSE @])

(* Mutant of pair_created_handle: a pair without a base token is stored     *)
(* like a pair whose base token is token1.                                  *)
pair_created_handle_any_pair(event, meta, F, db) ==
    pair_created_persist(
        event,
        IF is_base_token(event.token0) THEN 0 ELSE 1,
        AddrId(IF is_base_token(event.token0) THEN event.token1 ELSE event.token0),
        AddrId(event.pair),
        parse_i64_or_0(event.block),
        meta, F, db)

(* Mutant of pair_created_handle: the base token is looked for on the       *)
(* token1 side first, and token0 is taken for the new token.                *)
pair_created_handle_token0_new(event, meta, F, db) ==
    IF ~is_base_token(event.token0) /\ ~is_base_token(event.token1)
    THEN HandlerOk(db)
    ELSE pair_created_persist(
            event, 1, AddrId(event.token0), AddrId(event.pair),
            parse_i64_or_0(event.block),
            meta, F, db)

(* handlers::pair_created::handle *)
pair_created_handle(event, meta, F, db) ==
    IF ~is_base_token(event.token0) /\ ~is_base_token(event.token1)
    THEN HandlerOk(db)
    ELSE pair_created_persist(
            event,
            IF is_base_token(event.token0) THEN 0 ELSE 1,
            AddrId(IF is_base_token(event.token0) THEN event.token1 ELSE event.token0),
            AddrId(event.pair),
            parse_i64_or_0(event.block),
            meta, F, db)

(* The trade direction of a swap: Buy is base in and tokens out, Sell is    *)
(* tokens in and base out.                                                  *)
(* Mutant of Direction: the pair's base side is ignored and token0 is taken  *)
(* for the base token.                                                      *)
Direction_base_is_token0(base_token_index, amount0_in, amount1_in, amount0_out, amount1_out) ==
    IF base_token_index \notin {Some(0), Some(1)} THEN [known |-> FALSE]
    ELSE IF amount0_in > 0 /\ amount1_out > 0
    THEN [known |-> TRUE, is_buy |-> TRUE, amount_tokens |-> amount1_out, amount_bnb |-> amount0_in]
    ELSE IF amount1_in > 0 /\ amount0_out > 0
    THEN [known |-> TRUE, is_buy |-> FALSE, amount_tokens |-> amount1_in, amount_bnb |-> amount0_out]
    ELSE [known |-> FALSE]

Direction(base_token_index, amount0_in, amount1_in, amount0_out, amount1_out) ==
    CASE base_token_index = Some(0) ->
            IF amount0_in > 0 /\ amount1_out > 0
            THEN [known |-> TRUE, is_buy |-> TRUE, amount_tokens |-> amount1_out, amount_bnb |-> amount0_in]
            ELSE IF amount1_in > 0 /\ amount0_out > 0
            THEN [known |-> TRUE, is_buy |-> FALSE, amount_tokens |-> amount1_in, amount_bnb |-> amount0_out]
            ELSE [known |-> FALSE]
      [] base_token_index = Some(1) ->
            IF amount1_in > 0 /\ amount0_out > 0
            THEN [known |-> TRUE, is_buy |-> TRUE, amount_tokens |-> amount0_out, amount_bnb |-> amount1_in]
            ELSE IF amount0_in > 0 /\ amount1_out > 0
            THEN [known |-> TRUE, is_buy |-> FALSE, amount_tokens |-> amount0_in, amount_bnb |-> amount1_out]
            ELSE [known |-> FALSE]
      [] OTHER -> [known |-> FALSE]

(* The transaction hash and log index the Swap handler gives every NewSwap: *)
(* the all-zero hash (hashes are named by numbers, 0 the all-zero one) and  *)
(* index 0.                                                                 *)
NEW_SWAP_TX_HASH   == 0
NEW_SWAP_LOG_INDEX == 0

(* token_symbol of an alert: the stored symbol or the first 10 characters   *)
(* of the address                                                           *)
SymbolOr(found, address) ==
    IF found # None /\ found[1].symbol # None THEN found[1].symbol[1]
    ELSE SubSeq(AddrBook[address], 1, 10)

(* handlers::swap::handle, from the USD value on: the Swap row, the token's *)
(* counters and the whale alert                                             *)
swap_persist(pair_address, token_address, wallet_address, block_number, dir, amount_usd, F, db) ==
    LET is_whale == amount_usd >= WHALE_THRESHOLD_USD
        new_swap == [tx_hash |-> NEW_SWAP_TX_HASH,
                     block_number |-> block_number,
                     log_index |-> NEW_SWAP_LOG_INDEX,
                     pair_address |-> pair_address,
                     token_address |-> token_address,
                     wallet_address |-> wallet_address,
                     trade_type |-> IF dir.is_buy THEN "buy" ELSE "sell",
                     amount_tokens |-> dir.amount_tokens,
                     amount_bnb |-> dir.amount_bnb,
                     amount_usd |-> amount_usd,
                     is_whale |-> is_whale]
        tokens1 == IF "increment" \in F THEN db.tokens
                   ELSE increment_trade_count(token_address, dir.is_buy, amount_usd, db.tokens)
        token_symbol == SymbolOr(IF "symbol_find" \in F THEN None
                                 ELSE Token_find_by_address(token_address, tokens1),
                                 token_address)
        alert == [alert_type |-> IF dir.is_buy THEN "whale_buy" ELSE "whale_sell",
                  token_address |-> Some(token_address),
                  token_symbol |-> Some(token_symbol),
                  wallet_address |-> Some(wallet_address),
                  bee_score |-> None, amount_usd |-> Some(amount_usd)]
    IN HandlerOk([db EXCEPT
            !.swaps = IF "swap_create" \in F THEN @ ELSE Swap_create(new_swap, @),
            !.tokens = tokens1,
            !.alerts = IF is_whale /\ "alert_create" \notin F
                       THEN AlertEvent_create(alert, @) ELSE @])

(* Mutant of swap_trade: the USD value is taken from the token amount. *)
swap_trade_prices_tokens(event, pair_address, pair, dir, F, db) ==
    IF ~dir.known THEN HandlerOk(db)
    ELSE swap_persist(pair_address, get_token_address(pair), AddrId(event.to),
                      parse_i64_or_0(event.block), dir,
                      (dir.amount_tokens * BNB_PRICE_USD) \div UNITS_PER_TOKEN, F, db)

(* handlers::swap::handle, once the direction is computed *)
swap_trade(event, pair_address, pair, dir, F, db) ==
    IF ~dir.known THEN HandlerOk(db)
    ELSE swap_persist(pair_address, get_token_address(pair), AddrId(event.to),
                      parse_i64_or_0(event.block), dir,
                      (dir.amount_bnb * BNB_PRICE_USD) \div UNITS_PER_TOKEN, F, db)

(* handlers::swap::handle, once the pair is looked up *)
swap_found(event, pair_address, found, F, db) ==
    IF found = None THEN HandlerOk(db)
    ELSE swap_trade(event, pair_address, found[1],
                    Direction(found[1].base_token_index,
                              hex_to_bigdecimal(event.amount0_in),
                              hex_to_bigdecimal(event.amount1_in),
                              hex_to_bigdecimal(event.amount0_out),
                              hex_to_bigdecimal(event.amount1_out)),
                    F, db)

(* handlers::swap::handle *)
swap_handle(event, F, db) ==
    IF "pair_find" \in F THEN HandlerErr(db)
    ELSE swap_found(event, AddrId(event.pair),
                    Pair_find_by_address(AddrId(event.pair), db.pairs), F, db)

(* Mutant of transfer_persist: the recipient of an early mint is a sniper    *)
(* too.                                                                     *)
transfer_persist_mint_sniper(event, token_address, from_address, to_address, value, token, block_number, token_symbol, is_mint, is_burn, F, db) ==
    LET is_from_dev ==
            /\ ~is_mint
            /\ "devs_find" \notin F
            /\ \E d \in find_dev_holders(token_address, db.holders) :
                  to_lowercase(AddrBook[d]) = to_lowercase(event.from)
        new_activity(wallet, action) ==
            [wallet_address |-> wallet, tx_hash |-> event.tx_hash,
             block_number |-> block_number, action |-> action,
             token_address |-> token_address, token_symbol |-> Some(token_symbol),
             amount_tokens |-> Some(value), amount_usd |-> None]
        activity1 == IF ~is_mint /\ "activity_out" \notin F
                     THEN WalletActivity_create(new_activity(from_address, "transfer_out"),
                                                db.activity)
                     ELSE db.activity
        is_sniper == block_number <= unwrap_or(token.block_number, 0) + SNIPER_BLOCKS
        holder == [token_address |-> token_address, wallet_address |-> to_address,
                   balance |-> value, is_dev |-> FALSE, is_sniper |-> is_sniper,
                   is_contract |-> FALSE,
                   first_buy_block |-> Some(block_number)]
        holders1 == IF ~is_burn /\ "holder_upsert" \notin F
                    THEN TokenHolder_upsert(holder, db.holders) ELSE db.holders
        alert == [alert_type |-> "dev_sell",
                  token_address |-> Some(token_address),
                  token_symbol |-> Some(token_symbol),
                  wallet_address |-> Some(from_address),
                  bee_score |-> token.bee_score, amount_usd |-> None]
    IN HandlerOk([db EXCEPT
            !.holders = IF ~is_burn /\ is_sniper /\ "mark_sniper" \notin F
                        THEN mark_as_sniper(token_address, to_address, holders1)
                        ELSE holders1,
            !.activity = IF ~is_burn /\ "activity_in" \notin F
                         THEN WalletActivity_create(new_activity(to_address, "transfer_in"),
                                                    activity1)
                         ELSE activity1,
            !.alerts = IF is_from_dev /\ ~is_burn /\ "alert_create" \notin F
                       THEN AlertEvent_create(alert, @) ELSE @])

(* handlers::transfer::handle, once the token is found: the activity rows,  *)
(* the holder row and the dev_sell alert                                    *)
transfer_persist(event, token_address, from_address, to_address, value, token, block_number, token_symbol, is_mint, is_burn, F, db) ==
    LET is_from_dev ==
            /\ ~is_mint
            /\ "devs_find" \notin F
            /\ \E d \in find_dev_holders(token_address, db.holders) :
                  to_lowercase(AddrBook[d]) = to_lowercase(event.from)
        new_activity(wallet, action) ==
            [wallet_address |-> wallet, tx_hash |-> event.tx_hash,
             block_number |-> block_number, action |-> action,
             token_address |-> token_address, token_symbol |-> Some(token_symbol),
             amount_tokens |-> Some(value), amount_usd |-> None]
        activity1 == IF ~is_mint /\ "activity_out" \notin F
                     THEN WalletActivity_create(new_activity(from_address, "transfer_out"),
                                                db.activity)
                     ELSE db.activity
        is_sniper == /\ block_number <= unwrap_or(token.block_number, 0) + SNIPER_BLOCKS
                     /\ ~is_mint
        holder == [token_address |-> token_address, wallet_address |-> to_address,
                   balance |-> value, is_dev |-> FALSE, is_sniper |-> is_sniper,
                   is_contract |-> FALSE,
                   first_buy_block |-> Some(block_number)]
        holders1 == IF ~is_burn /\ "holder_upsert" \notin F
                    THEN TokenHolder_upsert(holder, db.holders) ELSE db.holders
        alert == [alert_type |-> "dev_sell",
                  token_address |-> Some(token_address),
                  token_symbol |-> Some(token_symbol),
                  wallet_address |-> Some(from_address),
                  bee_score |-> token.bee_score, amount_usd |-> None]
    IN HandlerOk([db EXCEPT
            !.holders = IF ~is_burn /\ is_sniper /\ "mark_sniper" \notin F
                        THEN mark_as_sniper(token_address, to_address, holders1)
                        ELSE holders1,
            !.activity = IF ~is_burn /\ "activity_in" \notin F
                         THEN WalletActivity_create(new_activity(to_address, "transfer_in"),
                                                    activity1)
                         ELSE activity1,
            !.alerts = IF is_from_dev /\ ~is_burn /\ "alert_create" \notin F
                       THEN AlertEvent_create(alert, @) ELSE @])

(* handlers::transfer::handle, once the token is looked up *)
transfer_found(event, token_address, found, F, db) ==
    IF found = None THEN HandlerOk(db)
    ELSE transfer_persist(event, token_address, AddrId(event.from), AddrId(event.to),
                          hex_to_bigdecimal(event.value), found[1],
                          parse_i64_or_0(event.block), SymbolOr(found, token_address),
                          to_lowercase(event.from) = ZERO_ADDRESS,
                          \/ to_lowercase(event.to) = ZERO_ADDRESS
                          \/ to_lowercase(event.to) = DEAD_ADDRESS,
                          F, db)

(* Mutant of transfer_handle: a transfer of value 0 is handled like any      *)
(* other.                                                                   *)
transfer_handle_keeps_zero(event, F, db) ==
    IF "token_find" \in F THEN HandlerErr(db)
    ELSE transfer_found(event, AddrId(event.token),
                        Token_find_by_address(AddrId(event.token), db.tokens), F, db)

(* handlers::transfer::handle *)
transfer_handle(event, F, db) ==
    IF hex_to_bigdecimal(event.value) = 0 THEN HandlerOk(db)
    ELSE IF "token_find" \in F THEN HandlerErr(db)
    ELSE transfer_found(event, AddrId(event.token),
                        Token_find_by_address(AddrId(event.token), db.tokens), F, db)

(* PriceSnapshot::create: INSERT ... ON CONFLICT (token_address, timestamp)   *)
(* DO UPDATE; the timestamp is the time of the call, which no row has yet.   *)
PriceSnapshot_create(snapshot, table) == Append(table, snapshot)

(* handlers::sync::handle, from the liquidity on: the token's price metrics  *)
(* (of which the row keeps liquidity_usd) and the price snapshot             *)
sync_persist(token_address, bnb_reserve, F, db) ==
    LET liquidity_usd == (2 * bnb_reserve * BNB_PRICE_USD) \div UNITS_PER_TOKEN
        tokens1 == IF "price_update" \in F THEN db.tokens
                   ELSE update_price_metrics(token_address, liquidity_usd, db.tokens)
        found == IF "holder_find" \in F THEN None
                 ELSE Token_find_by_address(token_address, tokens1)
        snapshot == [token_address |-> token_address,
                     liquidity_usd |-> Some(liquidity_usd),
                     holder_count |-> IF found = None THEN None ELSE found[1].holder_count]
    IN HandlerOk([db EXCEPT
            !.tokens = tokens1,
            !.snapshots = IF "snapshot_create" \in F THEN @
                          ELSE PriceSnapshot_create(snapshot, @)])

(* handlers::sync::handle, once the reserves are saved: which reserve is    *)
(* the base token's                                                         *)
sync_reserves(pair, reserve0, reserve1, F, db) ==
    CASE pair.base_token_index = Some(0) ->
            sync_persist(pair.token1_address, reserve0, F, db)
      [] pair.base_token_index = Some(1) ->
            sync_persist(pair.token0_address, reserve1, F, db)
      [] OTHER -> HandlerOk(db)

(* handlers::sync::handle, once the pair is looked up *)
sync_found(event, pair_address, found, F, db) ==
    IF found = None THEN HandlerOk(db)
    ELSE sync_reserves(found[1], hex_to_bigdecimal(event.reserve0),
                       hex_to_bigdecimal(event.reserve1), F,
                       [db EXCEPT !.pairs =
                            IF "reserves_update" \in F THEN @
                            ELSE Pair_update_reserves(pair_address,
                                                      hex_to_bigdecimal(event.reserve0),
                                                      hex_to_bigdecimal(event.reserve1), @)])

(* handlers::sync::handle; nothing in the processor calls it *)
sync_handle(event, F, db) ==
    IF "pair_find" \in F THEN HandlerErr(db)
    ELSE sync_found(event, AddrId(event.pair),
                    Pair_find_by_address(AddrId(event.pair), db.pairs), F, db)

(* update_token_score without the look at the score persisted before: a    *)
(* total of HIGH_SCORE or more is alerted at every re-scoring               *)
score_persist_alert_always(token_address, token, result, F, db) ==
    HandlerOk([db EXCEPT
            !.tokens = update_bee_score(token_address, result.total, result.safety_score,
                                        result.traction_score, @),
            !.alerts = IF result.total >= HIGH_SCORE /\ "score_alert" \notin F
                       THEN AlertEvent_create([alert_type |-> "high_bee_score",
                                               token_address |-> Some(token_address),
                                               token_symbol |-> token.symbol,
                                               wallet_address |-> None,
                                               bee_score |-> Some(result.total),
                                               amount_usd |-> None], @)
                       ELSE @])

(* service::update_token_score, once the score is calculated: the score is  *)
(* saved and a first crossing of the threshold is alerted                   *)
score_persist(token_address, token, result, F, db) ==
    LET alert == [alert_type |-> "high_bee_score",
                  token_address |-> Some(token_address),
                  token_symbol |-> token.symbol,
                  wallet_address |-> None,
                  bee_score |-> Some(result.total), amount_usd |-> None]
    IN HandlerOk([db EXCEPT
            !.tokens = update_bee_score(token_address, result.total, result.safety_score,
                                        result.traction_score, @),
            !.alerts = IF /\ result.total >= HIGH_SCORE
                          /\ unwrap_or(token.bee_score, 0) < HIGH_SCORE
                          /\ "score_alert" \notin F
                       THEN AlertEvent_create(alert, @) ELSE @])

(* service::update_token_score, once the token is looked up *)
score_found(token_address, found, F, db) ==
    IF found = None THEN HandlerOk(db)
    ELSE IF "score_update" \in F THEN HandlerErr(db)
    ELSE score_persist(token_address, found[1], calculate(to_metrics(found[1])), F, db)

(* service::update_token_score *)
update_token_score(token_address, F, db) ==
    IF "score_find" \in F THEN HandlerErr(db)
    ELSE score_found(token_address, Token_find_by_address(token_address, db.tokens), F, db)

----------------------------------------------------------------------------
(* Processor: process_logs (processor/src/service.rs). *)

(* EvmLogs::find_all(limit): the oldest rows of the queue, in insert order *)
find_all(limit, q) == SubSeq(q, 1, Min(limit, Len(q)))

(* EvmLogs::delete(id) *)
EvmLogs_delete(id, q) == SelectSeq(q, LAMBDA r : r.id # id)

(* The typed decode each arm of process_logs runs after decode_event. *)
typed_decode(log) ==
    CASE Topic0(log) = TOPIC_PAIR_CREATED -> pair_created_decode(log)
      [] Topic0(log) = TOPIC_SWAP -> swap_decode(log)
      [] Topic0(log) = TOPIC_TRANSFER -> transfer_decode(log)
      [] OTHER -> DecodeErr("UnknownEventTopic")

(* The statements process_logs runs for a log of each topic; any of them    *)
(* may fail in a run.                                                       *)
StatementsOf(topic0) ==
    {"publish", "delete"} \cup
    CASE topic0 = TOPIC_PAIR_CREATED ->
            {"pair_create", "token_create", "alert_create"}
      [] topic0 = TOPIC_SWAP ->
            {"pair_find", "swap_create", "increment", "symbol_find", "alert_create",
             "pair_refind", "score_find", "score_update", "score_alert"}
      [] topic0 = TOPIC_TRANSFER ->
            {"token_find", "devs_find", "activity_out", "holder_upsert", "mark_sniper",
             "activity_in", "alert_create", "score_find", "score_update", "score_alert"}
      [] OTHER -> {}

AllStatements ==
    StatementsOf(TOPIC_PAIR_CREATED) \cup StatementsOf(TOPIC_SWAP) \cup StatementsOf(TOPIC_TRANSFER)

FaultSets(topic0) == {F \in SUBSET StatementsOf(topic0) : Cardinality(F) <= MaxFaults}

NoMeta == [name |-> None, symbol |-> None, decimals |-> None, total_supply |-> None]

MetaFor(topic0) == IF topic0 = TOPIC_PAIR_CREATED THEN MetaValues ELSE {NoMeta}

(* What a turn of the loop computes from the raw log alone (the decoders    *)
(* are pure), and the choices the turn has for that log.                    *)
LogFacts(log) ==
    [topic0 |-> Topic0(log),
     decoded |-> decode_event(log),
     typed |-> typed_decode(log),
     faults |-> FaultSets(Topic0(log)),
     metas |-> MetaFor(Topic0(log))]

FactsOf(chain) == [i \in DOMAIN chain |-> LogFacts(chain[i])]

ChainFacts == FactsOf(Chain)

Outcome(h) == IF h.result = "Ok" THEN "handled" ELSE "handler_error"

(* What the handler arm of a turn leaves: the outcome of the handler, the   *)
(* store after the re-score, the channel of the decoded event.              *)
Handled(h, db, channel) ==
    [outcome |-> Outcome(h), db |-> db, channel |-> channel, aborted |-> FALSE]

(* The statements between a handler's Ok and the persisted score *)
RescoreStatements == {"pair_refind", "score_find", "score_update"}

(* The SWAP arm without its else branch: no re-score after the handler *)
swap_rescore_skipped(h, found, F) == h.db

(* The SWAP arm after the handler: the pair is looked up again and its      *)
(* token re-scored when the handler returned Ok.                            *)
swap_rescore(h, found, F) ==
    IF h.result = "Ok" /\ found # None
    THEN update_token_score(get_token_address(found[1]), F, h.db).db
    ELSE h.db

(* The TRANSFER arm after the handler *)
transfer_rescore(h, token_address, F) ==
    IF h.result = "Ok" THEN update_token_score(token_address, F, h.db).db ELSE h.db

(* The Swap arm of the match, once the handler has returned h *)
swap_arm(h, event, channel, F, db) ==
    Handled(h,
            swap_rescore(h,
                         IF "pair_refind" \in F THEN None
                         ELSE Pair_find_by_address(AddrId(event.pair), db.pairs),
                         F),
            channel)

(* The Transfer arm of the match, once the handler has returned h *)
transfer_arm(h, event, channel, F) ==
    Handled(h, transfer_rescore(h, AddrId(event.token), F), channel)

(* The arms of the match on topic0, for a decoded event; the handler of an  *)
(* arm runs once and the rest of the arm works on what it returned.         *)
handle_event(topic0, event, channel, meta, F, db) ==
    CASE topic0 = TOPIC_PAIR_CREATED ->
            Handled(pair_created_handle(event, meta, F, db),
                    pair_created_handle(event, meta, F, db).db, channel)
      [] topic0 = TOPIC_SWAP ->
            CHOOSE r \in {swap_arm(h, event, channel, F, db)
                            : h \in {swap_handle(event, F, db)}} : TRUE
      [] topic0 = TOPIC_TRANSFER ->
            CHOOSE r \in {transfer_arm(h, event, channel, F)
                            : h \in {transfer_handle(event, F, db)}} : TRUE
      [] OTHER ->
            [outcome |-> "handled", db |-> db, channel |-> channel, aborted |-> FALSE]

(* Mutant of handle_log: a log that does not decode ends process_logs. *)
handle_log_decode_aborts(facts, meta, F, db) ==
    IF ~facts.decoded.ok \/ ~facts.typed.ok
    THEN [outcome |-> "aborted", db |-> db, channel |-> None, aborted |-> TRUE]
    ELSE handle_event(facts.topic0, facts.typed.event, Some(facts.decoded.channel),
                      meta, F, db)

(* The body of the loop up to the publish, for a raw log with these facts:  *)
(* the outcome of the decode-and-handle attempt, the store it leaves, the   *)
(* channel it publishes to, and whether an error left process_logs through  *)
(* `?`.                                                                     *)
handle_log(facts, meta, F, db) ==
    IF ~facts.decoded.ok
    THEN [outcome |-> "undecodable", db |-> db, channel |-> None, aborted |-> FALSE]
    ELSE IF ~facts.typed.ok
    THEN [outcome |-> "aborted", db |-> db, channel |-> None, aborted |-> TRUE]
    ELSE handle_event(facts.topic0, facts.typed.event, Some(facts.decoded.channel),
                      meta, F, db)

(* Mutant of delete_log: the delete is left out after a handler error. *)
delete_log_unless_error(row, outcome, F, q) ==
    IF outcome = "handler_error"
    THEN [delete |-> "not_issued", queue |-> q]
    ELSE IF "delete" \in F
    THEN [delete |-> "failed", queue |-> q]
    ELSE [delete |-> "ok", queue |-> EvmLogs_delete(row.id, q)]

(* Mutant of delete_log: the oldest row of the queue is deleted. *)
delete_log_oldest(row, outcome, F, q) ==
    IF "delete" \in F
    THEN [delete |-> "failed", queue |-> q]
    ELSE [delete |-> "ok", queue |-> EvmLogs_delete(Head(q).id, q)]

(* The end of the loop body: the row is deleted whatever the outcome of its *)
(* attempt was; a failed delete is logged.                                  *)
delete_log(row, outcome, F, q) ==
    IF "delete" \in F
    THEN [delete |-> "failed", queue |-> q]
    ELSE [delete |-> "ok", queue |-> EvmLogs_delete(row.id, q)]

NoProc ==
    [id |-> 0, src |-> 0, outcome |-> "none", published |-> None, delete |-> "none",
     rescore |-> {}]

Store == [pairs |-> pairs, tokens |-> tokens, swaps |-> swaps,
          holders |-> holders, activity |-> activity, alerts |-> alerts,
          snapshots |-> snapshots]

(* process_logs starts: it fetches a batch of raw-log rows. *)
ProcFetch ==
    /\ ppc = "idle"
    /\ queue # <<>>
    /\ fetches < MaxBatches
    /\ fetches' = fetches + 1
    /\ batch' = find_all(BATCH_SIZE, queue)
    /\ ppc' = "batch"
    /\ pev' = NoProc
    /\ UNCHANGED <<queue, pairs, tokens, swaps, holders, activity, alerts, snapshots, faults>>

(* One turn of the loop of process_logs, for the first row left of the      *)
(* batch: decode, handle, re-score, publish, delete.                        *)
ProcessLogFailing(statements) ==
    /\ ppc = "batch"
    /\ batch # <<>>
    /\ LET row == Head(batch)
           end_turn(F, r, d) ==
                /\ pairs' = r.db.pairs
                /\ tokens' = r.db.tokens
                /\ swaps' = r.db.swaps
                /\ holders' = r.db.holders
                /\ activity' = r.db.activity
                /\ alerts' = r.db.alerts
                /\ snapshots' = r.db.snapshots
                /\ queue' = d.queue
                /\ batch' = IF r.aborted THEN <<>> ELSE Tail(batch)
                /\ ppc' = IF batch' = <<>> THEN "idle" ELSE "batch"
                /\ pev' = [id |-> row.id, src |-> row.src, outcome |-> r.outcome,
                           published |-> IF "publish" \in F THEN None ELSE r.channel,
                           delete |-> d.delete,
                           rescore |-> F \cap RescoreStatements]
           turn(F, r) ==
                \E d \in {IF r.aborted THEN [delete |-> "not_issued", queue |-> queue]
                          ELSE delete_log(row, r.outcome, F, queue)} : end_turn(F, r, d)
       IN \E facts \in {ChainFacts[row.src]} :
          \E meta \in facts.metas, F \in facts.faults \cap SUBSET statements :
            /\ faults + Cardinality(F) <= MaxFaults
            /\ faults' = faults + Cardinality(F)
            /\ \E r \in {handle_log(facts, meta, F, Store)} : turn(F, r)
    /\ UNCHANGED fetches

(* One turn of the loop, any of its statements failing *)
ProcessLog == ProcessLogFailing(AllStatements)

pvars == <<pairs, tokens, swaps, holders, activity, alerts, snapshots, batch, ppc, fetches, faults, pev>>

InitStore ==
    /\ pairs = <<>>
    /\ tokens = <<>>
    /\ swaps = {}
    /\ holders = <<>>
    /\ activity = {}
    /\ alerts = <<>>
    /\ snapshots = <<>>
    /\ batch = <<>>
    /\ ppc = "idle"
    /\ fetches = 0
    /\ faults = 0
    /\ pev = NoProc

----------------------------------------------------------------------------
(* Specifications. *)

vars == <<sync, queue, nextId, pc, lastB, latestB, fromB, toB, att, slept, ticks, ev,
          pairs, tokens, swaps, holders, activity, alerts, snapshots, batch, ppc, fetches,
          faults, pev, tip>>

InitListener ==
    /\ sync = <<>>
    /\ queue = <<>>
    /\ nextId = 1
    /\ pc = [f \in Filters |-> "idle"]
    /\ lastB = [f \in Filters |-> 0]
    /\ latestB = [f \in Filters |-> 0]
    /\ fromB = [f \in Filters |-> 0]
    /\ toB = [f \in Filters |-> 0]
    /\ att = [f \in Filters |-> 0]
    /\ slept = [f \in Filters |-> <<>>]
    /\ ticks = 0
    /\ ev = NoEvent
    /\ tip = 0
    /\ InitStore

NextListener == \E f \in Filters : ListenerStep(f) /\ UNCHANGED pvars /\ UNCHANGED tip

SpecListener == InitListener /\ [][NextListener]_vars

(* The queues the listener may have left: up to MaxQueue raw logs of the    *)
(* chain in any order, a log possibly more than once.                       *)
QueueInits ==
    UNION {{[i \in 1..n |-> [id |-> i, src |-> s[i]]] : s \in [1..n -> 1..Len(Chain)]}
            : n \in 1..MaxQueue}

InitProcessor ==
    /\ queue \in QueueInits
    /\ nextId = Len(queue) + 1
    /\ sync = <<>>
    /\ pc = [f \in Filters |-> "idle"]
    /\ lastB = [f \in Filters |-> 0]
    /\ latestB = [f \in Filters |-> 0]
    /\ fromB = [f \in Filters |-> 0]
    /\ toB = [f \in Filters |-> 0]
    /\ att = [f \in Filters |-> 0]
    /\ slept = [f \in Filters |-> <<>>]
    /\ ticks = 0
    /\ ev = NoEvent
    /\ tip = 0
    /\ InitStore

NextProcessor ==
    \/ ProcFetch /\ UNCHANGED <<sync, nextId, pc, lastB, latestB, fromB, toB, att, slept, ticks, ev, tip>>
    \/ ProcessLog /\ UNCHANGED <<sync, nextId, pc, lastB, latestB, fromB, toB, att, slept, ticks, ev, tip>>

SpecProcessor == InitProcessor /\ [][NextProcessor]_vars

----------------------------------------------------------------------------
(* Claims about the listener. *)

RECURSIVE SumSeq(_)
SumSeq(s) == IF s = <<>> THEN 0 ELSE Head(s) + SumSeq(Tail(s))

(* The step is taken by filter f while its tick is in fetch_logs_with_retry. *)
AttemptOf(f) == pc[f] = "fetching" /\ ev'.f = f /\ ev'.att = att[f] + 1

(* C1: for every filter, over any sequence of ticks and whatever tip the    *)
(* RPC reports, the stored last_synced_block never decreases.               *)
C1_CursorNeverDecreases ==
    [][\A k \in DOMAIN sync : sync'[k] >= sync[k]]_vars

C5_OwnCursorPerFilter ==
    [][\A f, g \in Filters :
        (f # g /\ ev'.f = f /\ SyncRow[g] \in DOMAIN sync)
            => sync'[SyncRow[g]] = sync[SyncRow[g]]]_vars

(* C6: when every get_logs attempt of a tick is rate-limited there are      *)
(* exactly MAX_RETRIES attempts, the k-th followed by a sleep of            *)
(* base_delay * 2^k (k from 0), then the tick fails with MaxRetriesExceeded *)
(* having written no log and left the cursor unchanged.                     *)
C6_BackoffThenMaxRetries ==
    [][\A f \in Filters :
        (AttemptOf(f) /\ ev'.resp \in RateLimitedMsgs) =>
            /\ ev'.att <= MAX_RETRIES
            /\ ev'.kind = (IF ev'.att = MAX_RETRIES THEN "max_retries" ELSE "rate_limited")
            /\ pc'[f] = (IF ev'.att = MAX_RETRIES THEN "idle" ELSE "fetching")
            /\ Len(ev'.slept) = ev'.att
            /\ \A k \in 1..ev'.att : ev'.slept[k] = RPC_DELAY_MS * 2^(k - 1)
            /\ ev'.polite = 0
            /\ queue' = queue
            /\ sync' = sync]_vars

(* A tick failed with MaxRetriesExceeded. *)
C6_Witness ==
    /\ ev.kind = "max_retries"
    /\ ev.att = MAX_RETRIES
    /\ Len(ev.slept) = MAX_RETRIES

(* C7: when get_logs succeeds after k rate-limited attempts the tick has    *)
(* slept base_delay * (2^0 + ... + 2^(k-1)) in backoff, commits the logs of *)
(* the successful attempt and sets the cursor to min(from + RANGE, tip).    *)
C7_RecoveryCommitsOneRange ==
    [][\A f \in Filters :
        (AttemptOf(f) /\ ev'.kind = "committed") =>
            /\ att[f] < MAX_RETRIES
            /\ Len(slept[f]) = att[f]
            /\ SumSeq(ev'.slept) = RPC_DELAY_MS * (2^(att[f]) - 1)
            /\ ev'.polite = RPC_DELAY_MS
            /\ LET logs == get_logs(build_filter(f, fromB[f], toB[f])) IN
                /\ Len(queue') = Len(queue) + Len(logs)
                /\ \A i \in 1..Len(logs) :
                      queue'[Len(queue) + i] = [id |-> nextId + i - 1, src |-> logs[i]]
                /\ SubSeq(queue', 1, Len(queue)) = queue
            /\ sync' = [sync EXCEPT ![SyncRow[f]] =
                            Min(fromB[f] + BLOCK_RANGE, latestB[f])]]_vars

(* A tick committed a full block range of logs after two rate-limited       *)
(* attempts.                                                                *)
C7_Witness ==
    /\ ev.kind = "committed"
    /\ ev.att = 3
    /\ ev.slept = <<RPC_DELAY_MS, 2 * RPC_DELAY_MS>>
    /\ ev.to = ev.from + BLOCK_RANGE
    /\ ev.to < ev.latest
    /\ sync[SyncRow[ev.f]] = ev.to
    /\ queue # <<>>

(* C8: an error that is not classified as rate-limited ends the tick after  *)
(* that attempt, without a backoff sleep or a further attempt, and leaves   *)
(* the cursor and the queue unchanged.                                      *)
C8_OtherErrorSurfaces ==
    [][\A f \in Filters :
        (AttemptOf(f) /\ ev'.resp # 0 /\ ~is_rate_limited(ErrMsgs[ev'.resp])) =>
            /\ ev'.kind = "rpc_error"
            /\ pc'[f] = "idle"
            /\ att'[f] = 0
            /\ ev'.slept = slept[f]
            /\ ev'.polite = 0
            /\ queue' = queue
            /\ sync' = sync]_vars

(* A tick returned a non-rate-limit error on its first attempt. *)
C8_Witness ==
    /\ ev.kind = "rpc_error"
    /\ ev.att = 1
    /\ ev.slept = <<>>
    /\ ~is_rate_limited(ErrMsgs[ev.resp])

----------------------------------------------------------------------------
(* Claims about the processor. *)

(* The raw-log row with this id is in the queue. *)
InQueue(id, q) == \E j \in 1..Len(q) : q[j].id = id

(* C3 as stated: a raw-log row leaves the queue only in the turn of the     *)
(* loop that processed it, and only when its attempt succeeded or the row   *)
(* was undecodable; a row whose handler returned an error is never deleted. *)
C3_DeletedOnlyAfterSuccess ==
    [][\A i \in 1..Len(queue) :
        ~InQueue(queue[i].id, queue') =>
            /\ pev'.id = queue[i].id
            /\ pev'.outcome \in {"handled", "undecodable"}]_vars

(* C3 amended: a raw-log row leaves the queue only at the end of the turn   *)
(* of the loop that ran its own decode-and-handle attempt, whatever the     *)
(* attempt came to: handled, handler error (logged) or undecodable.         *)
C3_DeletedOnlyAfterAttempt ==
    [][\A i \in 1..Len(queue) :
        ~InQueue(queue[i].id, queue') =>
            /\ ppc = "batch"
            /\ Head(batch).id = queue[i].id
            /\ pev'.id = queue[i].id
            /\ pev'.outcome \in {"handled", "handler_error", "undecodable"}
            /\ pev'.delete = "ok"]_vars

(* A row whose handler returned an error was deleted. *)
C3_Witness ==
    /\ pev.outcome = "handler_error"
    /\ pev.delete = "ok"
    /\ ~InQueue(pev.id, queue)

(* C4: every turn of the process_logs loop, whatever failed in it (decode,  *)
(* handler, re-score, publish), issues the delete of its row and leaves the *)
(* rest of the batch to be processed; nothing aborts the batch.             *)
C4_FailuresNeverStopTheBatch ==
    [][ppc = "batch" =>
        /\ pev'.id = Head(batch).id
        /\ pev'.outcome \in {"handled", "handler_error", "undecodable"}
        /\ pev'.delete \in {"ok", "failed"}
        /\ (pev'.delete = "ok" => ~InQueue(pev'.id, queue'))
        /\ batch' = Tail(batch)
        /\ ppc' = (IF Tail(batch) = <<>> THEN "idle" ELSE "batch")]_vars

(* The first row of a batch had its handler fail and its publish fail, was *)
(* deleted, and the batch goes on.                                          *)
C4_Witness ==
    /\ pev.id = 1
    /\ pev.outcome = "handler_error"
    /\ pev.published = None
    /\ faults = 2
    /\ pev.delete = "ok"
    /\ ppc = "batch"
    /\ batch # <<>>

(* The Swap logs on chain that decode, emitted by a pair. *)
SwapLogsOf(pair_address) ==
    {i \in DOMAIN ChainFacts :
        /\ ChainFacts[i].topic0 = TOPIC_SWAP
        /\ ChainFacts[i].decoded.ok
        /\ AddrId(ChainFacts[i].typed.event.pair) = pair_address}

(* C9: a token's trade counters follow the number of distinct Swap logs of  *)
(* its pair, however often a log is delivered: trades_1h and trades_24h     *)
(* never exceed that number.                                                *)
C9_CountersFollowDistinctSwaps ==
    \A t \in DOMAIN tokens :
        /\ unwrap_or(tokens[t].trades_1h, 0)
              <= Cardinality(SwapLogsOf(unwrap_or(tokens[t].pair_address, 0)))
        /\ unwrap_or(tokens[t].trades_24h, 0)
              <= Cardinality(SwapLogsOf(unwrap_or(tokens[t].pair_address, 0)))

(* C10: every row of the Swap table is keyed by the (tx_hash, log_index) of *)
(* the Swap log it records, and every handled Swap log has its row.         *)
C10_SwapRowsKeyedByTheirLog ==
    /\ \A s \in swaps :
          \E i \in SwapLogsOf(s.pair_address) :
              /\ Chain[i].transaction_hash = s.tx_hash
              /\ Chain[i].log_index = s.log_index
              /\ Chain[i].block = s.block_number
    /\ \A t \in DOMAIN tokens :
          unwrap_or(tokens[t].trades_1h, 0) <= Cardinality(swaps)

(* The token a PairCreated event lists: the side that is not the base token. *)
NewTokenOf(event) ==
    AddrId(IF is_base_token(event.token0) THEN event.token1 ELSE event.token0)

(* The row at the head of the batch holds the PairCreated log i, and the    *)
(* pair and the token of that log are in the store already.                 *)
PairCreatedAgain(i) ==
    /\ ppc = "batch"
    /\ batch # <<>>
    /\ Head(batch).src = i
    /\ ChainFacts[i].topic0 = TOPIC_PAIR_CREATED
    /\ ChainFacts[i].typed.ok
    /\ AddrId(ChainFacts[i].typed.event.pair) \in DOMAIN pairs
    /\ NewTokenOf(ChainFacts[i].typed.event) \in DOMAIN tokens

(* C11: processing a raw PairCreated log again leaves the Pair table as it  *)
(* was (one row for the pair, the same token0, token1, factory,             *)
(* base_token_index and block_number) and adds no Token row; the token's    *)
(* row keeps its pair_address and block_number.                             *)
C11_PairCreatedTwiceAsOnce ==
    [][\A i \in DOMAIN ChainFacts :
        PairCreatedAgain(i) =>
            /\ pairs' = pairs
            /\ DOMAIN tokens' = DOMAIN tokens
            /\ \A t \in DOMAIN tokens :
                  /\ tokens'[t].pair_address = tokens[t].pair_address
                  /\ tokens'[t].block_number = tokens[t].block_number
            /\ tokens'[NewTokenOf(ChainFacts[i].typed.event)].pair_address
                  = Some(AddrId(ChainFacts[i].typed.event.pair))]_vars

(* A PairCreated log was processed twice, each time with nothing failing:   *)
(* the second row of the batch held it, and the pair and its token are      *)
(* stored.                                                                  *)
C11_Witness ==
    /\ pev.id = 2
    /\ pev.src = 1
    /\ pev.outcome = "handled"
    /\ faults = 0
    /\ Len(alerts) = 2
    /\ DOMAIN pairs = {AddrId(Hex0x(from_str(PAIR1)))}
    /\ DOMAIN tokens = {AddrId(Hex0x(from_str(TOKEN1)))}

(* C12: however often a raw PairCreated log is processed, the alert table   *)
(* holds at most one new_token alert for its token.                         *)
C12_OneNewTokenAlert ==
    \A t \in DOMAIN tokens :
        Cardinality({k \in DOMAIN alerts :
                        /\ alerts[k].alert_type = "new_token"
                        /\ alerts[k].token_address = Some(t)}) <= 1

----------------------------------------------------------------------------
(* Re-scoring a token (processor/src/service.rs, update_token_score) as the *)
(* metric columns of its row change.  The row is the one Token::create      *)
(* leaves, with the trade counters as the swaps of an hour left them; the   *)
(* writers of the entity change the other metric columns.                   *)

MaxAlerts == 2      \* alerts in the store when a re-scoring starts

ScoreStatements == {"score_find", "score_update", "score_alert"}

ScoredToken == AddrId(Hex0x(from_str(TOKEN1)))

NoScore == [op |-> "none", token |-> 0, F |-> {}, result |-> "none", emitted |-> 0]

(* The trade counters Token::increment_trade_count has left on the row *)
TradeCounters ==
    {[volume_1h_usd |-> None, trades_1h |-> None, buys_1h |-> None, sells_1h |-> None],
     [volume_1h_usd |-> Some(100000), trades_1h |-> Some(100),
      buys_1h |-> Some(50), sells_1h |-> Some(50)]}

NewTokenRow(address) ==
    Token_create([address |-> address, name |-> None, symbol |-> None,
                  decimals |-> None, total_supply |-> None,
                  pair_address |-> None, block_number |-> Some(1)], <<>>)[address]

WithCounters(row, c) ==
    [row EXCEPT !.volume_1h_usd = c.volume_1h_usd, !.trades_1h = c.trades_1h,
                !.buys_1h = c.buys_1h, !.sells_1h = c.sells_1h]

(* update_token_score on the token: with overflow checks compiled in, a     *)
(* calculate that overflows panics and nothing is persisted.                *)
Rescore ==
    /\ Len(alerts) < MaxAlerts
    /\ \E F \in SUBSET ScoreStatements, checked \in BOOLEAN :
         \E r \in {update_token_score(ScoredToken, F, Store)} :
           IF /\ checked
              /\ "score_find" \notin F
              /\ ScoredToken \in DOMAIN tokens
              /\ calculate_overflows(to_metrics(tokens[ScoredToken]))
           THEN /\ pev' = [op |-> "rescore", token |-> ScoredToken, F |-> F,
                           result |-> "panic", emitted |-> 0]
                /\ UNCHANGED <<tokens, alerts>>
           ELSE /\ tokens' = r.db.tokens
                /\ alerts' = r.db.alerts
                /\ pev' = [op |-> "rescore", token |-> ScoredToken, F |-> F,
                           result |-> r.result,
                           emitted |-> Len(r.db.alerts) - Len(alerts)]
    /\ UNCHANGED <<pairs, swaps, holders, activity, snapshots, batch, ppc, fetches, faults>>

LiquidityValues == {10000, 100000}

SavePriceMetrics ==
    /\ \E liquidity_usd \in LiquidityValues :
         tokens' = update_price_metrics(ScoredToken, liquidity_usd, tokens)
    /\ pev' = [NoScore EXCEPT !.op = "update_price_metrics"]
    /\ UNCHANGED <<pairs, swaps, holders, activity, alerts, snapshots, batch, ppc, fetches, faults>>

HolderValues ==
    {[holder_count |-> 50, top_10_percent |-> 39, dev_percent |-> 4],
     [holder_count |-> 50, top_10_percent |-> 59, dev_percent |-> 4]}

SaveHolderMetrics ==
    /\ \E h \in HolderValues :
         tokens' = update_holder_metrics(ScoredToken, h.holder_count, h.top_10_percent,
                                         h.dev_percent, tokens)
    /\ pev' = [NoScore EXCEPT !.op = "update_holder_metrics"]
    /\ UNCHANGED <<pairs, swaps, holders, activity, alerts, snapshots, batch, ppc, fetches, faults>>

LockValues == {[lp_locked |-> TRUE, lp_lock_percent |-> 95],
               [lp_locked |-> FALSE, lp_lock_percent |-> 0]}

SaveLpLock ==
    /\ \E l \in LockValues :
         tokens' = update_lp_lock(ScoredToken, l.lp_locked, l.lp_lock_percent, tokens)
    /\ pev' = [NoScore EXCEPT !.op = "update_lp_lock"]
    /\ UNCHANGED <<pairs, swaps, holders, activity, alerts, snapshots, batch, ppc, fetches, faults>>

lvars == <<sync, queue, nextId, pc, lastB, latestB, fromB, toB, att, slept, ticks, ev, tip>>

lvarsButQueue == <<sync, nextId, pc, lastB, latestB, fromB, toB, att, slept, ticks, ev, tip>>

(* The store holding one token row, nothing queued, both loops at rest *)
InitWithToken(row) ==
    /\ sync = <<>>
    /\ queue = <<>>
    /\ nextId = 1
    /\ pc = [f \in Filters |-> "idle"]
    /\ lastB = [f \in Filters |-> 0]
    /\ latestB = [f \in Filters |-> 0]
    /\ fromB = [f \in Filters |-> 0]
    /\ toB = [f \in Filters |-> 0]
    /\ att = [f \in Filters |-> 0]
    /\ slept = [f \in Filters |-> <<>>]
    /\ ticks = 0
    /\ ev = NoEvent
    /\ tip = 0
    /\ pairs = <<>>
    /\ tokens = (ScoredToken :> row)
    /\ swaps = {}
    /\ holders = <<>>
    /\ activity = {}
    /\ alerts = <<>>
    /\ snapshots = <<>>
    /\ batch = <<>>
    /\ ppc = "idle"
    /\ fetches = 0
    /\ faults = 0
    /\ pev = NoScore

InitScore == \E c \in TradeCounters : InitWithToken(WithCounters(NewTokenRow(ScoredToken), c))

NextScore ==
    \/ Rescore /\ UNCHANGED lvars
    \/ SavePriceMetrics /\ UNCHANGED lvars
    \/ SaveHolderMetrics /\ UNCHANGED lvars
    \/ SaveLpLock /\ UNCHANGED lvars

SpecScore == InitScore /\ [][NextScore]_vars

(* C13: in a re-scoring of a token by update_token_score a high_bee_score   *)
(* alert is emitted only when the newly computed total is at least 80 and   *)
(* the bee_score persisted before was below 80 (absent counts as 0), and    *)
(* is emitted whenever that holds and no statement of the re-scoring fails; *)
(* a re-scoring that directly follows one that emitted the alert, with the  *)
(* metrics unchanged, emits none.                                           *)
ScoreCrossing(t) ==
    /\ calculate(to_metrics(tokens[t])).total >= HIGH_SCORE
    /\ unwrap_or(tokens[t].bee_score, 0) < HIGH_SCORE

ScoreAlerted(t) ==
    /\ Len(alerts') = Len(alerts) + 1
    /\ SubSeq(alerts', 1, Len(alerts)) = alerts
    /\ alerts'[Len(alerts')].alert_type = "high_bee_score"
    /\ alerts'[Len(alerts')].token_address = Some(t)
    /\ alerts'[Len(alerts')].bee_score = Some(calculate(to_metrics(tokens[t])).total)

ScoresOf(row) ==
    [total |-> row.bee_score, safety_score |-> row.safety_score,
     traction_score |-> row.traction_score]

Scored(row) ==
    ScoresOf(row) = [total |-> Some(calculate(to_metrics(row)).total),
                     safety_score |-> Some(calculate(to_metrics(row)).safety_score),
                     traction_score |-> Some(calculate(to_metrics(row)).traction_score)]

(* the tracked tokens a turn for log i of the chain re-scores *)
RescoredBy(i) ==
    CASE ChainFacts[i].topic0 = TOPIC_SWAP ->
            {get_token_address(pairs'[p]) :
                p \in {AddrId(ChainFacts[i].typed.event.pair)} \cap DOMAIN pairs'}
            \cap DOMAIN tokens'
      [] ChainFacts[i].topic0 = TOPIC_TRANSFER ->
            {AddrId(ChainFacts[i].typed.event.token)} \cap DOMAIN tokens'
      [] OTHER -> {}

C14_RescoreAfterSwapOrTransfer ==
    [][(ppc = "batch" /\ batch # <<>>) =>
         /\ (pev'.outcome = "handled" /\ pev'.rescore = {})
               => \A t \in RescoredBy(Head(batch).src) : Scored(tokens'[t])
         /\ ChainFacts[Head(batch).src].topic0 = TOPIC_PAIR_CREATED
               => \A t \in DOMAIN tokens' :
                     ScoresOf(tokens'[t]) = IF t \in DOMAIN tokens THEN ScoresOf(tokens[t])
                                           ELSE ScoresOf(NewTokenRow(t))]_vars

(* a Swap of the tracked token has been handled and its score persisted *)
C14_Witness ==
    /\ pev.outcome = "handled"
    /\ pev.rescore = {}
    /\ pev.src \in DOMAIN ChainFacts
    /\ ChainFacts[pev.src].topic0 = TOPIC_SWAP
    /\ ScoredToken \in DOMAIN tokens
    /\ tokens[ScoredToken].trades_1h = Some(1)
    /\ tokens[ScoredToken].bee_score = Some(calculate(to_metrics(tokens[ScoredToken])).total)

----------------------------------------------------------------------------
(* BeeScoreCalculator::calculate over the metric columns a token row can    *)
(* hold: every tier of every rubric, the columns absent, and i32 counters   *)
(* at the ends of their range.  The safety columns are combined in full     *)
(* with the traction columns at their lowest and highest scores, and the    *)
(* traction columns in full with the safety columns at their highest (the   *)
(* volume rubric needs liquidity).                                          *)

SafetyInputs ==
    [liquidity_usd : {None, Some(10000), Some(50000), Some(100000)},
     lock : {<<None, None>>, <<Some(TRUE), Some(49)>>, <<Some(TRUE), Some(50)>>,
             <<Some(TRUE), Some(90)>>},
     top_10_holder_percent : {None, Some(79), Some(59), Some(39)},
     dev_holdings_percent : {None, Some(19), Some(9), Some(4)},
     ownership_renounced : {None, Some(TRUE)}]

SafetyBest ==
    [liquidity_usd |-> Some(100000), lock |-> <<Some(TRUE), Some(90)>>,
     top_10_holder_percent |-> Some(39), dev_holdings_percent |-> Some(4),
     ownership_renounced |-> Some(TRUE)]

TractionInputs ==
    [volume_1h_usd : {None, Some(10000), Some(20000), Some(200000), Some(300001)},
     trades_1h : {None, Some(5), Some(20), Some(50), Some(100)},
     holders : {<<None, None>>, <<Some(101), Some(100)>>, <<Some(105), Some(100)>>,
                <<Some(110), Some(100)>>, <<Some(120), Some(100)>>,
                <<Some(I32_MIN), Some(1)>>},
     price_change_1h : {None, Some(5), Some(201), Some(-21), Some(-51)},
     trades : {<<None, None>>, <<Some(4), Some(6)>>, <<Some(3), Some(7)>>,
               <<Some(2), Some(8)>>, <<Some(1), Some(9)>>,
               <<Some(I32_MAX), Some(I32_MAX)>>}]

TractionCorners ==
    {[volume_1h_usd |-> None, trades_1h |-> None, holders |-> <<None, None>>,
      price_change_1h |-> Some(-51), trades |-> <<Some(1), Some(9)>>],
     [volume_1h_usd |-> Some(200000), trades_1h |-> Some(100),
      holders |-> <<Some(120), Some(100)>>, price_change_1h |-> Some(5),
      trades |-> <<Some(4), Some(6)>>]}

ScoreRow(s, t) ==
    [NewTokenRow(ScoredToken) EXCEPT
        !.liquidity_usd = s.liquidity_usd,
        !.lp_locked = s.lock[1],
        !.lp_lock_percent = s.lock[2],
        !.top_10_holder_percent = s.top_10_holder_percent,
        !.dev_holdings_percent = s.dev_holdings_percent,
        !.ownership_renounced = s.ownership_renounced,
        !.volume_1h_usd = t.volume_1h_usd,
        !.trades_1h = t.trades_1h,
        !.holder_count = t.holders[1],
        !.holder_count_1h_ago = t.holders[2],
        !.price_change_1h = t.price_change_1h,
        !.buys_1h = t.trades[1],
        !.sells_1h = t.trades[2]]

ScoreInputs ==
    {ScoreRow(s, t) : s \in SafetyInputs, t \in TractionCorners}
    \cup {ScoreRow(SafetyBest, t) : t \in TractionInputs}

InitCalc == \E row \in ScoreInputs : InitWithToken(row)

NextCalc == Rescore /\ UNCHANGED lvars

SpecCalc == InitCalc /\ [][NextCalc]_vars

(* C15: for every metrics input calculate returns safety_score in 0..60,    *)
(* traction_score in 0..40 and total = safety_score + traction_score in     *)
(* 0..100; and every token row that has been scored holds bee_score =       *)
(* safety_score + traction_score within the same ranges.                    *)
ScoreInRange(r) ==
    /\ r.safety_score \in 0..60
    /\ r.traction_score \in 0..40
    /\ r.total = r.safety_score + r.traction_score
    /\ r.total \in 0..100

C15_ScoreBounds ==
    \A t \in DOMAIN tokens :
        /\ ScoreInRange(calculate(to_metrics(tokens[t])))
        /\ tokens[t].bee_score # None =>
              /\ tokens[t].safety_score # None
              /\ tokens[t].traction_score # None
              /\ ScoreInRange([total |-> tokens[t].bee_score[1],
                               safety_score |-> tokens[t].safety_score[1],
                               traction_score |-> tokens[t].traction_score[1]])

(* the row with every rubric at its highest tier has been scored 60 + 40 *)
C15_Witness ==
    /\ pev.op = "rescore"
    /\ ScoresOf(tokens[ScoredToken]) =
          [total |-> Some(100), safety_score |-> Some(60), traction_score |-> Some(40)]

----------------------------------------------------------------------------
(* The listener loops running for ever (listener/src/main.rs): the chain    *)
(* tip stands still, a restarted listener finds the cursors it left, and    *)
(* the RPC and the store fail in at most MaxFaults ticks.  The tick counter *)
(* wraps, so that the state space is finite.                                *)

(* The loops main spawns: only the PairCreated listener is not commented out *)
LiveFilters == {1}

CursorInits ==
    {<<>>} \cup {[r \in {SyncRow[f] : f \in LiveFilters} |-> c] : c \in {1, 13}}

LiveTick == ticks' = (ticks + 1) % (MaxTicks + 1)

(* The running tick of filter f fails: it is counted at its first failure *)
TickFails(f) ==
    IF att[f] = 0
    THEN faults < MaxFaults /\ faults' = faults + 1
    ELSE UNCHANGED faults

(* One step of the loop of filter f: a tick starts, or its get_logs is      *)
(* attempted.                                                               *)
LiveLoop(f) ==
    /\ \/ RpcDown(f) /\ LiveTick /\ TickFails(f)
       \/ FullyIndexed(f, tip) /\ LiveTick /\ UNCHANGED faults
       \/ Start(f, tip) /\ LiveTick /\ UNCHANGED faults
       \/ AttemptRateLimited(f) /\ TickFails(f)
       \/ AttemptError(f) /\ TickFails(f)
       \/ AttemptOk(f) /\ (IF ev'.kind = "committed" \/ att[f] > 0
                            THEN UNCHANGED faults
                            ELSE TickFails(f))
    /\ UNCHANGED <<pairs, tokens, swaps, holders, activity, alerts, snapshots, batch, ppc, fetches, pev, tip>>

InitListenerLive ==
    /\ sync \in CursorInits
    /\ tip \in TipValues
    /\ queue = <<>>
    /\ nextId = 1
    /\ pc = [f \in Filters |-> "idle"]
    /\ lastB = [f \in Filters |-> 0]
    /\ latestB = [f \in Filters |-> 0]
    /\ fromB = [f \in Filters |-> 0]
    /\ toB = [f \in Filters |-> 0]
    /\ att = [f \in Filters |-> 0]
    /\ slept = [f \in Filters |-> <<>>]
    /\ ticks = 0
    /\ ev = NoEvent
    /\ InitStore

NextListenerLive == \E f \in LiveFilters : LiveLoop(f)

(* Every loop is a task of its own whose sleeps and RPC calls return, so a  *)
(* loop that can take a step eventually takes one.                          *)
SpecListenerLive ==
    InitListenerLive /\ [][NextListenerLive]_vars /\ \A f \in LiveFilters : WF_vars(LiveLoop(f))

(* C16: the listener loop of a filter has no terminal state: whatever the   *)
(* outcome of a tick, the filter starts another tick later; and with the    *)
(* tip standing still and the RPC and store failing only finitely often,    *)
(* the cursor of every filter eventually equals the tip.                    *)
TickBegins(f) == ev'.f = f /\ ev'.kind \in {"rpc_down", "fully_indexed", "start"}

C16_ListenerLoopLive ==
    /\ \A f \in LiveFilters : []<><<TickBegins(f)>>_vars
    /\ \A f \in LiveFilters : <>(SyncRow[f] \in DOMAIN sync /\ sync[SyncRow[f]] = tip)

(* after MaxRetriesExceeded and another failed tick the cursor stands at    *)
(* the tip and the loop still ticks                                         *)
C16_Witness ==
    /\ faults = MaxFaults
    /\ tip = 13
    /\ ev.kind = "fully_indexed"
    /\ \A f \in LiveFilters : SyncRow[f] \in DOMAIN sync /\ sync[SyncRow[f]] = tip

----------------------------------------------------------------------------
(* The processor loop with a store whose deletes succeed                    *)
(* (processor/src/main.rs): decodes, handlers, re-scores and publishes may  *)
(* fail as in SpecProcessor.                                                *)

(* The statements that fail in these runs: the publish, the first lookup   *)
(* of the Swap and of the Transfer handler (the handler returns the error), *)
(* the token insert of the PairCreated handler (the handler logs it).       *)
LiveStatements == {"publish", "pair_find", "token_find", "token_create"}

ProcLoop ==
    \/ ProcFetch /\ UNCHANGED lvarsButQueue
    \/ ProcessLogFailing(LiveStatements) /\ UNCHANGED lvarsButQueue

(* A turn of the loop, seen on the batch alone: the first row leaves it.    *)
(* Every turn of ProcessLogFailing is such a step and no other step of the  *)
(* loop is, and a turn can be taken wherever rows are left of the batch     *)
(* (no statement need fail), so fairness of the turns can be stated on it.  *)
NextTurn == ppc = "batch" /\ batch # <<>> /\ batch' = Tail(batch)

(* The loop of main never waits for anything but its sleep and the store:   *)
(* a fetch it can issue is eventually issued, and a turn of the for loop    *)
(* that can be taken is eventually taken.                                   *)
SpecProcessorLive ==
    /\ InitProcessor
    /\ [][ProcLoop]_vars
    /\ WF_vars(ProcFetch /\ UNCHANGED lvarsButQueue)
    /\ WF_batch(NextTurn)

(* C17: with the store's reads and deletes succeeding, every raw log in the *)
(* queue is eventually deleted by the processor loop, whatever happens to   *)
(* the logs in front of it (decode failure, handler failure, publish        *)
(* failure).                                                                *)
C17_EveryLogLeavesTheQueue ==
    \A id \in 1..MaxQueue : InQueue(id, queue) ~> ~InQueue(id, queue)

(* the second row has been handled and deleted after the PairCreated log in *)
(* front of it lost its token insert, and its own publish failed            *)
C17_Witness ==
    /\ pev.id = 2
    /\ pev.delete = "ok"
    /\ pev.published = None
    /\ pev.outcome = "handled"
    /\ queue = <<>>
    /\ DOMAIN pairs # {}
    /\ DOMAIN tokens = {}

----------------------------------------------------------------------------
(* The fully indexed tick. *)

(* The cursor a tick of filter f finds in this table: find_or_create gives  *)
(* a filter without a row a row at block 0.                                 *)
CursorRead(f, table) == find_or_create_by_address(SyncRow[f], table)[SyncRow[f]]

(* C20: a tick that finds the stored cursor equal to the latest block       *)
(* requests no logs (it returns before the range is computed and before     *)
(* fetch_logs_with_retry is entered), inserts no raw-log row, and leaves    *)
(* every cursor at the block it stood at; the rows the cursor table had     *)
(* are untouched.                                                           *)
C20_FullyIndexedTickDoesNothing ==
    [][ev'.kind = "fully_indexed" =>
            /\ ev'.latest = CursorRead(ev'.f, sync)
            /\ pc' = pc /\ pc'[ev'.f] = "idle"
            /\ att' = att /\ fromB' = fromB /\ toB' = toB
            /\ queue' = queue /\ nextId' = nextId
            /\ \A f \in Filters : CursorRead(f, sync') = CursorRead(f, sync)
            /\ \A k \in DOMAIN sync : k \in DOMAIN sync' /\ sync'[k] = sync[k]]_vars

(* the tick after a committed tick that took the cursor to the tip 13 finds *)
(* the cursor at the tip                                                    *)
C20_Witness ==
    /\ ev.kind = "fully_indexed"
    /\ ev.last = 13 /\ ev.latest = 13
    /\ ticks = 2
    /\ queue # <<>>

----------------------------------------------------------------------------
(* Reserve sync. *)

(* The SyncEvent of a raw Sync log: the pair is the emitter, the two        *)
(* reserves are the two words of the data.                                  *)
SyncEvent(log) ==
    [pair |-> Hex0x(log.address), reserve0 |-> log.data[1], reserve1 |-> log.data[2],
     block |-> to_string(log.block)]

(* The turn of the loop now taken is for a raw Sync log whose emitter is a  *)
(* pair of the store, and its row is deleted.                               *)
SyncDrained ==
    /\ ppc = "batch" /\ batch # <<>>
    /\ Topic0(Chain[Head(batch).src]) = TOPIC_SYNC
    /\ AddrId(Hex0x(Chain[Head(batch).src].address)) \in DOMAIN pairs
    /\ pev'.id = Head(batch).id
    /\ pev'.delete = "ok"

(* C19: when the processor drains a raw Sync log emitted by a known pair,   *)
(* the pair's reserve0 and reserve1 are the log's values, the liquidity of  *)
(* the pair's token is the one computed from them, and a PriceSnapshot row  *)
(* of the token has been added: the store is left as the Sync handler       *)
(* leaves it.                                                               *)
C19_SyncLogUpdatesReserves ==
    [][SyncDrained =>
        \E log \in {Chain[Head(batch).src]} :
        \E p \in {AddrId(Hex0x(log.address))} :
        \E t \in {get_token_address(pairs[p])} :
        \E h \in {sync_handle(SyncEvent(log), {}, Store)} :
            /\ pairs'[p].reserve0 = Some(hex_to_bigdecimal(log.data[1]))
            /\ pairs'[p].reserve1 = Some(hex_to_bigdecimal(log.data[2]))
            /\ tokens' = h.db.tokens
            /\ t \in DOMAIN tokens =>
                    tokens'[t].liquidity_usd # None /\ tokens'[t].liquidity_usd # tokens[t].liquidity_usd
            /\ Len(snapshots') = Len(snapshots) + 1
            /\ snapshots'[Len(snapshots')].token_address = t]_vars

----------------------------------------------------------------------------
(* The pipeline: the listener main starts and the processor, on one store.  *)
(* The provider answers in these runs (a tick that ends in an RPC error      *)
(* writes nothing); the transaction of a tick and the statements of the     *)
(* processor may fail.                                                      *)

InitPipeline == InitListener

NextPipeline ==
    \/ \E f \in LiveFilters : TickFullyIndexed(f) /\ UNCHANGED pvars /\ UNCHANGED tip
    \/ \E f \in LiveFilters : TickStart(f) /\ UNCHANGED pvars /\ UNCHANGED tip
    \/ \E f \in LiveFilters : AttemptOk(f) /\ UNCHANGED pvars /\ UNCHANGED tip
    \/ ProcFetch /\ UNCHANGED lvarsButQueue
    \/ ProcessLog /\ UNCHANGED lvarsButQueue

SpecPipeline == InitPipeline /\ [][NextPipeline]_vars

(* Chain log i is a PairCreated log whose token0 is a configured base token *)
NewTokenLog(i) ==
    /\ ChainFacts[i].topic0 = TOPIC_PAIR_CREATED
    /\ ChainFacts[i].typed.ok
    /\ is_base_token(ChainFacts[i].typed.event.token0)

(* This step is the commit of a tick whose inserts and cursor update all    *)
(* succeeded.                                                               *)
TickCommitted ==
    /\ ev'.kind = "committed"
    /\ pc[ev'.f] = "fetching"
    /\ pc'[ev'.f] = "idle"

(* This step is a turn of the processor loop, no statement of it failing,   *)
(* for a row the listener queued for chain log i.                           *)
TurnFor(i) ==
    /\ ppc = "batch" /\ batch # <<>>
    /\ Head(batch).src = i
    /\ pev'.id = Head(batch).id
    /\ faults' = faults

(* The rows a new-token log leaves in the store *)
NewTokenStored(event, P, T, A) ==
    /\ AddrId(event.pair) \in DOMAIN P
    /\ P[AddrId(event.pair)].base_token_index = Some(0)
    /\ AddrId(event.token1) \in DOMAIN T
    /\ T[AddrId(event.token1)].pair_address = Some(AddrId(event.pair))
    /\ \E a \in DOMAIN A :
          /\ A[a].alert_type = "new_token"
          /\ A[a].token_address = Some(AddrId(event.token1))

(* C18: a PairCreated log of the polled range whose token0 is a configured  *)
(* base token is queued by the committed tick, and the turn of the          *)
(* processor batch that takes its row, no store statement of it failing,    *)
(* leaves a Pair row with base_token_index 0, a Token row for token1 with   *)
(* pair_address that pair, a new_token alert for token1, and the row out of *)
(* the queue.                                                               *)
C18_NewTokenFlow ==
    /\ [][TickCommitted =>
            \A i \in 1..Len(Chain) :
                (/\ NewTokenLog(i)
                 /\ Chain[i].block >= ev'.from /\ Chain[i].block <= ev'.to)
                => \E k \in (DOMAIN queue') \ (DOMAIN queue) : queue'[k].src = i]_vars
    /\ [][\A i \in 1..Len(Chain) :
            (NewTokenLog(i) /\ TurnFor(i))
            => /\ NewTokenStored(ChainFacts[i].typed.event, pairs', tokens', alerts')
               /\ ~InQueue(Head(batch).id, queue')]_vars

(* the tick at tip 2 has committed the PairCreated log of block 2, and the  *)
(* batch fetched after it has left the pair, the token and the alert, and   *)
(* an empty queue                                                           *)
C18_Witness ==
    /\ ev.kind = "committed" /\ ev.from <= 2 /\ ev.to >= 2
    /\ pev.src = 1 /\ pev.outcome = "handled" /\ pev.delete = "ok"
    /\ faults = 0 /\ fetches = 1
    /\ ppc = "idle" /\ queue = <<>>
    /\ NewTokenStored(ChainFacts[1].typed.event, pairs, tokens, alerts)

----------------------------------------------------------------------------
(* The block range of a tick. *)

(* This step is the start of a tick: the range is computed and              *)
(* fetch_logs_with_retry is entered.                                        *)
RangeComputed ==
    /\ ev'.kind = "start"
    /\ pc[ev'.f] = "idle"
    /\ pc'[ev'.f] = "fetching"

----------------------------------------------------------------------------
(* The Swap handler on its own: a pair is on file with its token, and Swap   *)
(* logs of that pair with every combination of amounts are handled one      *)
(* after the other.                                                         *)

MaxSwaps == 2       \* Swap logs handled in a run

SwapStatements == {"increment", "alert_create"}

NoSwap == [op |-> "none", n |-> 0, event |-> <<>>, F |-> {}, result |-> "none"]

(* The PairCreated log of PAIR1 with the base token on side base_index *)
PairLog(base_index) ==
    [Chain[1] EXCEPT !.topics =
        <<from_str(TOPIC_PAIR_CREATED),
          AddressWord(IF base_index = 0 THEN WBNB_ADDRESS ELSE TOKEN1),
          AddressWord(IF base_index = 0 THEN TOKEN1 ELSE WBNB_ADDRESS)>>]

(* The store once the PairCreated handler has handled that log *)
PairOnFile(base_index) ==
    pair_created_handle(pair_created_decode(PairLog(base_index)).event, NoMeta, {},
                        [pairs |-> <<>>, tokens |-> <<>>, swaps |-> {},
                         holders |-> <<>>, activity |-> {}, alerts |-> <<>>,
                         snapshots |-> <<>>]).db

(* The data words of the Swap logs: every combination of zero and non-zero  *)
(* amounts, below the whale threshold (1 BNB) and above it (10 BNB), the    *)
(* two amounts next to the threshold (8.33 and 8.34 BNB), and one amount0In *)
(* that does not fit u128.                                                  *)
SwapData ==
    {<<U256(0, a0i), U256(0, a1i), U256(0, a0o), U256(0, a1o)>> :
        a0i \in {0, 100}, a1i \in {0, 100}, a0o \in {0, 100}, a1o \in {0, 100}}
    \cup
    {<<U256(0, a0i), U256(0, a1i), U256(0, a0o), U256(0, a1o)>> :
        a0i \in {0, 1000}, a1i \in {0, 1000}, a0o \in {0, 1000}, a1o \in {0, 1000}}
    \cup {<<U256(0, 833), U256(0, 0), U256(0, 0), U256(0, 834)>>,
          <<U256(0, 834), U256(0, 0), U256(0, 0), U256(0, 833)>>}
    \cup {<<U256(1, 0), U256(0, 0), U256(0, 0), U256(0, 100)>>}

SwapLogs == {[Chain[3] EXCEPT !.data = d] : d \in SwapData}

InitSwap ==
    /\ sync = <<>>
    /\ queue = <<>>
    /\ nextId = 1
    /\ pc = [f \in Filters |-> "idle"]
    /\ lastB = [f \in Filters |-> 0]
    /\ latestB = [f \in Filters |-> 0]
    /\ fromB = [f \in Filters |-> 0]
    /\ toB = [f \in Filters |-> 0]
    /\ att = [f \in Filters |-> 0]
    /\ slept = [f \in Filters |-> <<>>]
    /\ ticks = 0
    /\ ev = NoEvent
    /\ tip = 0
    /\ \E base_index \in {0, 1} :
         /\ pairs = PairOnFile(base_index).pairs
         /\ tokens = PairOnFile(base_index).tokens
    /\ swaps = {}
    /\ holders = <<>>
    /\ activity = {}
    /\ alerts = <<>>
    /\ snapshots = <<>>
    /\ batch = <<>>
    /\ ppc = "idle"
    /\ fetches = 0
    /\ faults = 0
    /\ pev = NoSwap

(* handlers::swap::handle on one decoded Swap log *)
HandleSwap ==
    /\ pev.n < MaxSwaps
    /\ \E log \in SwapLogs, F \in {{}} \cup {{s} : s \in SwapStatements} :
         \E r \in {swap_handle(swap_decode(log).event, F, Store)} :
           /\ tokens' = r.db.tokens
           /\ swaps' = r.db.swaps
           /\ alerts' = r.db.alerts
           /\ pev' = [op |-> "swap", n |-> pev.n + 1, event |-> swap_decode(log).event,
                      F |-> F, result |-> r.result]
    /\ UNCHANGED <<pairs, holders, activity, snapshots, batch, ppc, fetches, faults>>

NextSwap == HandleSwap /\ UNCHANGED lvars

SpecSwap == InitSwap /\ [][NextSwap]_vars

(* The pair and the token of the Swap logs, and the four amounts of a Swap  *)
(* event as the handler reads them, seen from the pair's base side.         *)
SwapPair == AddrId(PAIR1)
SwapToken == get_token_address(pairs[SwapPair])
BaseSide == pairs[SwapPair].base_token_index[1]
BaseIn(event) == hex_to_bigdecimal(IF BaseSide = 0 THEN event.amount0_in ELSE event.amount1_in)
BaseOut(event) == hex_to_bigdecimal(IF BaseSide = 0 THEN event.amount0_out ELSE event.amount1_out)
TokenIn(event) == hex_to_bigdecimal(IF BaseSide = 0 THEN event.amount1_in ELSE event.amount0_in)
TokenOut(event) == hex_to_bigdecimal(IF BaseSide = 0 THEN event.amount1_out ELSE event.amount0_out)
BuyAmounts(event) == BaseIn(event) > 0 /\ TokenOut(event) > 0
SellAmounts(event) == TokenIn(event) > 0 /\ BaseOut(event) > 0

(* The step is a run of the Swap handler in which no statement fails. *)
SwapRun == pev'.op = "swap" /\ pev'.F = {}

(* What a run leaves behind when it took the swap for a buy (a sell): the    *)
(* token's counters, and the Swap row when the table had none.              *)
CountedAs(is_buy) ==
    /\ tokens'[SwapToken].trades_1h = Some(unwrap_or(tokens[SwapToken].trades_1h, 0) + 1)
    /\ tokens'[SwapToken].buys_1h =
           Some(unwrap_or(tokens[SwapToken].buys_1h, 0) + (IF is_buy THEN 1 ELSE 0))
    /\ tokens'[SwapToken].sells_1h =
           Some(unwrap_or(tokens[SwapToken].sells_1h, 0) + (IF is_buy THEN 0 ELSE 1))

StoredAs(trade_type, amount_tokens, amount_native) ==
    /\ tokens'[SwapToken].volume_1h_usd =
           Some(unwrap_or(tokens[SwapToken].volume_1h_usd, 0)
                + (amount_native * BNB_PRICE_USD) \div UNITS_PER_TOKEN)
    /\ swaps = {} =>
           /\ Cardinality(swaps') = 1
           /\ \A s \in swaps' : /\ s.trade_type = trade_type
                                /\ s.amount_tokens = amount_tokens
                                /\ s.amount_bnb = amount_native

SwapSkipped == UNCHANGED <<tokens, swaps, alerts>> /\ pev'.result = "Ok"

NativeAmount(event) == IF BuyAmounts(event) THEN BaseIn(event) ELSE BaseOut(event)
UsdValue(event) == (NativeAmount(event) * BNB_PRICE_USD) \div UNITS_PER_TOKEN
SwapHandled(event) == BuyAmounts(event) \/ SellAmounts(event)
WhaleSwap(event) == SwapHandled(event) /\ UsdValue(event) >= WHALE_THRESHOLD_USD

(* The step adds exactly one alert, of the given type, for the swap's token *)
AlertAdded(alert_type) ==
    /\ Len(alerts') = Len(alerts) + 1
    /\ SubSeq(alerts', 1, Len(alerts)) = alerts
    /\ alerts'[Len(alerts')].alert_type = alert_type
    /\ alerts'[Len(alerts')].token_address = Some(SwapToken)
    /\ alerts'[Len(alerts')].amount_usd = Some(UsdValue(pev'.event))

C24_TradeCounters ==
    /\ [](unwrap_or(tokens[SwapToken].buys_1h, 0) + unwrap_or(tokens[SwapToken].sells_1h, 0)
              <= unwrap_or(tokens[SwapToken].trades_1h, 0))
    /\ [][(pev'.op = "swap" /\ "increment" \notin pev'.F /\ SwapHandled(pev'.event)) =>
              /\ unwrap_or(tokens'[SwapToken].trades_1h, 0)
                     = unwrap_or(tokens[SwapToken].trades_1h, 0) + 1
              /\ unwrap_or(tokens'[SwapToken].buys_1h, 0) + unwrap_or(tokens'[SwapToken].sells_1h, 0)
                     = unwrap_or(tokens[SwapToken].buys_1h, 0)
                       + unwrap_or(tokens[SwapToken].sells_1h, 0) + 1
              /\ unwrap_or(tokens'[SwapToken].buys_1h, 0) >= unwrap_or(tokens[SwapToken].buys_1h, 0)
              /\ unwrap_or(tokens'[SwapToken].sells_1h, 0) >= unwrap_or(tokens[SwapToken].sells_1h, 0)]_vars

(* A buy and then a sell have been counted: two trades, one on each side. *)
C24_Witness ==
    /\ pev.op = "swap" /\ pev.n = 2 /\ "increment" \notin pev.F
    /\ ~BuyAmounts(pev.event) /\ SellAmounts(pev.event)
    /\ tokens[SwapToken].trades_1h = Some(2)
    /\ tokens[SwapToken].buys_1h = Some(1)
    /\ tokens[SwapToken].sells_1h = Some(1)

----------------------------------------------------------------------------
(* The PairCreated handler on its own: PairCreated logs of five pairs are   *)
(* handled one after the other, in any order and any number of times, with  *)
(* whatever metadata the token's contract gives.                            *)

MaxPairs == 2       \* PairCreated logs handled in a run

PairStatements == {"pair_create", "token_create"}

NoPair == [op |-> "none", n |-> 0, event |-> <<>>, meta |-> NoMeta, F |-> {}, result |-> "none"]

PairCreatedLog(token0, token1, pair) ==
    [Chain[1] EXCEPT !.topics = <<from_str(TOPIC_PAIR_CREATED), AddressWord(token0), AddressWord(token1)>>,
                     !.data = <<AddressWord(pair), U256(0, 1)>>]

(* TOKEN1 against WBNB and against BUSD, TOKEN2 against BUSD, a pair of two *)
(* tokens neither of which is a base token, and the pair of the two base    *)
(* tokens.                                                                  *)
PairCreatedLogs ==
    {PairCreatedLog(WBNB_ADDRESS, TOKEN1, PAIR1),
     PairCreatedLog(TOKEN1, BUSD_ADDRESS, PAIR2),
     PairCreatedLog(BUSD_ADDRESS, TOKEN2, PAIR3),
     PairCreatedLog(TOKEN1, TOKEN2, PAIR4),
     PairCreatedLog(WBNB_ADDRESS, BUSD_ADDRESS, PAIR5)}

(* What fetch_token_metadata may bring back: nothing, or one of two full    *)
(* answers.                                                                 *)
PairMetaValues ==
    MetaValues \cup
    {[name |-> Some(<<"T","w","o">>), symbol |-> Some(<<"T","W","O">>),
      decimals |-> Some(6), total_supply |-> Some(5000)]}

InitPair ==
    /\ sync = <<>>
    /\ queue = <<>>
    /\ nextId = 1
    /\ pc = [f \in Filters |-> "idle"]
    /\ lastB = [f \in Filters |-> 0]
    /\ latestB = [f \in Filters |-> 0]
    /\ fromB = [f \in Filters |-> 0]
    /\ toB = [f \in Filters |-> 0]
    /\ att = [f \in Filters |-> 0]
    /\ slept = [f \in Filters |-> <<>>]
    /\ ticks = 0
    /\ ev = NoEvent
    /\ tip = 0
    /\ pairs = <<>>
    /\ tokens = <<>>
    /\ swaps = {}
    /\ holders = <<>>
    /\ activity = {}
    /\ alerts = <<>>
    /\ snapshots = <<>>
    /\ batch = <<>>
    /\ ppc = "idle"
    /\ fetches = 0
    /\ faults = 0
    /\ pev = NoPair

(* handlers::pair_created::handle on one decoded PairCreated log *)
HandlePairCreated ==
    /\ pev.n < MaxPairs
    /\ \E log \in PairCreatedLogs, meta \in PairMetaValues,
          F \in {{}} \cup {{s} : s \in PairStatements} :
         \E r \in {pair_created_handle(pair_created_decode(log).event, meta, F, Store)} :
           /\ pairs' = r.db.pairs
           /\ tokens' = r.db.tokens
           /\ alerts' = r.db.alerts
           /\ pev' = [op |-> "pair", n |-> pev.n + 1,
                      event |-> pair_created_decode(log).event,
                      meta |-> meta, F |-> F, result |-> r.result]
    /\ UNCHANGED <<swaps, holders, activity, snapshots, batch, ppc, fetches, faults>>

NextPair == HandlePairCreated /\ UNCHANGED lvars

SpecPair == InitPair /\ [][NextPair]_vars

(* The token a stored pair row has on side index *)
TokenAt(pair, index) == IF index = 0 THEN pair.token0_address ELSE pair.token1_address

BaseIds == {AddrId(Hex0x(from_str(WBNB_ADDRESS))), AddrId(Hex0x(from_str(BUSD_ADDRESS)))}

(* C25: every Pair row stored by the PairCreated handler has                *)
(* base_token_index in {0, 1} and the token on that side is a configured    *)
(* base token (WBNB or BUSD); a PairCreated event in which neither token is *)
(* a base token stores no Pair, no Token and no alert.                      *)
C25_BaseIndexNamesABaseToken ==
    /\ [](\A p \in DOMAIN pairs :
            /\ pairs[p].base_token_index \in {Some(0), Some(1)}
            /\ TokenAt(pairs[p], pairs[p].base_token_index[1]) \in BaseIds)
    /\ [][(/\ pev'.op = "pair"
           /\ ~is_base_token(pev'.event.token0)
           /\ ~is_base_token(pev'.event.token1))
            => UNCHANGED <<pairs, tokens, alerts>> /\ pev'.result = "Ok"]_vars

(* The pair of TOKEN1 and BUSD is on file with base_token_index 1 after the *)
(* pair of TOKEN1 and TOKEN2 was handled and left nothing.                  *)
C25_Witness ==
    /\ pev.op = "pair" /\ pev.n = 2
    /\ DOMAIN pairs = {AddrId(PAIR2)}
    /\ pairs[AddrId(PAIR2)].base_token_index = Some(1)
    /\ pairs[AddrId(PAIR2)].token1_address = AddrId(Hex0x(from_str(BUSD_ADDRESS)))
    /\ Len(alerts) = 1

(* C26: in every Pair row stored exactly one of token0 and token1 is a      *)
(* configured base token, and no configured base token has a Token row.     *)
C26_ExactlyOneBaseToken ==
    /\ \A p \in DOMAIN pairs :
         (pairs[p].token0_address \in BaseIds) # (pairs[p].token1_address \in BaseIds)
    /\ \A t \in DOMAIN tokens : t \notin BaseIds

(* The step upserts a token that is already on file. *)
UpsertOfKnownToken ==
    /\ pev'.op = "pair" /\ pev'.F = {}
    /\ is_base_token(pev'.event.token0) \/ is_base_token(pev'.event.token1)
    /\ NewTokenOf(pev'.event) \in DOMAIN tokens

(* C27: when the PairCreated handler upserts a Token that already exists    *)
(* and the metadata fetch yields no value for a field (name, symbol,        *)
(* decimals or total_supply), the token's value of that field is unchanged  *)
(* after the upsert.                                                        *)
C27_AbsentFieldKeepsStoredValue ==
    [][UpsertOfKnownToken =>
         /\ pev'.meta.name = None =>
                tokens'[NewTokenOf(pev'.event)].name = tokens[NewTokenOf(pev'.event)].name
         /\ pev'.meta.symbol = None =>
                tokens'[NewTokenOf(pev'.event)].symbol = tokens[NewTokenOf(pev'.event)].symbol
         /\ pev'.meta.decimals = None =>
                tokens'[NewTokenOf(pev'.event)].decimals = tokens[NewTokenOf(pev'.event)].decimals
         /\ pev'.meta.total_supply = None =>
                tokens'[NewTokenOf(pev'.event)].total_supply
                    = tokens[NewTokenOf(pev'.event)].total_supply]_vars

----------------------------------------------------------------------------
(* The holder table on its own: upserts of one (token, wallet) row with any *)
(* balance, flags and first_buy_block, and mark_as_sniper / mark_as_dev     *)
(* calls for that wallet and for a wallet without a row.                    *)

HeldToken == AddrId(Hex0x(from_str(TOKEN1)))
HolderWallet == AddrId(Hex0x(from_str(WALLET1)))
HolderKey == <<HeldToken, HolderWallet>>

NewHolders ==
    [token_address : {HeldToken}, wallet_address : {HolderWallet},
     balance : {100, 500}, is_dev : BOOLEAN, is_sniper : BOOLEAN, is_contract : BOOLEAN,
     first_buy_block : {None, Some(4), Some(12)}]

InitHolder == InitWithToken(NewTokenRow(HeldToken))

UpsertHolder ==
    /\ \E holder \in NewHolders :
         /\ holders' = TokenHolder_upsert(holder, holders)
         /\ pev' = [op |-> "upsert", wallet |-> holder.wallet_address, holder |-> holder]
    /\ UNCHANGED <<pairs, tokens, swaps, activity, alerts, snapshots, batch, ppc, fetches, faults>>

MarkSniper ==
    /\ \E wallet \in {HolderWallet, AddrId(Hex0x(from_str(PAIR1)))} :
         /\ holders' = mark_as_sniper(HeldToken, wallet, holders)
         /\ pev' = [op |-> "mark_as_sniper", wallet |-> wallet, holder |-> <<>>]
    /\ UNCHANGED <<pairs, tokens, swaps, activity, alerts, snapshots, batch, ppc, fetches, faults>>

MarkDev ==
    /\ \E wallet \in {HolderWallet, AddrId(Hex0x(from_str(PAIR1)))} :
         /\ holders' = mark_as_dev(HeldToken, wallet, holders)
         /\ pev' = [op |-> "mark_as_dev", wallet |-> wallet, holder |-> <<>>]
    /\ UNCHANGED <<pairs, tokens, swaps, activity, alerts, snapshots, batch, ppc, fetches, faults>>

NextHolder ==
    \/ UpsertHolder /\ UNCHANGED lvars
    \/ MarkSniper /\ UNCHANGED lvars
    \/ MarkDev /\ UNCHANGED lvars

SpecHolder == InitHolder /\ [][NextHolder]_vars

(* C29: for the (token, wallet) holder row and any sequence of TokenHolder  *)
(* upserts and mark_as_sniper / mark_as_dev calls: the row is never         *)
(* removed; once is_dev, is_sniper or is_contract is true it never becomes  *)
(* false again; first_buy_block never changes once set; and balance is the  *)
(* balance of the latest upsert (an upsert sets it, a mark leaves it).      *)
C29_HolderFlagsOnlyRise ==
    /\ [][(HolderKey \in DOMAIN holders) =>
            /\ HolderKey \in DOMAIN holders'
            /\ holders[HolderKey].is_dev => holders'[HolderKey].is_dev
            /\ holders[HolderKey].is_sniper => holders'[HolderKey].is_sniper
            /\ holders[HolderKey].is_contract => holders'[HolderKey].is_contract
            /\ holders[HolderKey].first_buy_block # None =>
                   holders'[HolderKey].first_buy_block = holders[HolderKey].first_buy_block
            /\ pev'.op # "upsert" =>
                   holders'[HolderKey].balance = holders[HolderKey].balance]_vars
    /\ [][pev'.op = "upsert" => holders'[HolderKey].balance = pev'.holder.balance]_vars

(* A row that was a sniper, a dev and a contract with first_buy_block 4 and *)
(* balance 100 has been upserted with balance 500, no flag and               *)
(* first_buy_block 12.                                                      *)
C29_Witness ==
    /\ pev.op = "upsert"
    /\ pev.holder.balance = 500 /\ pev.holder.first_buy_block = Some(12)
    /\ ~pev.holder.is_dev /\ ~pev.holder.is_sniper /\ ~pev.holder.is_contract
    /\ holders[HolderKey] = [balance |-> 500, is_dev |-> TRUE, is_sniper |-> TRUE,
                             is_contract |-> TRUE, first_buy_block |-> Some(4)]

----------------------------------------------------------------------------
(* The Transfer handler on its own: TOKEN1 is tracked (its pair is on file, *)
(* created at block 2), TOKEN2 is not, and Transfer logs are handled one    *)
(* after the other, each any number of times.                               *)

MaxTransfers == 2   \* Transfer logs handled in a run

TransferStatements == {"token_find", "holder_upsert"}

TransferLog(token, from, to, value, block, tx) ==
    [block |-> block, address |-> from_str(token),
     topics |-> <<from_str(TOPIC_TRANSFER), AddressWord(from), AddressWord(to)>>,
     data |-> <<value>>, transaction_hash |-> tx, log_index |-> 0]

(* A mint, an early and a late transfer from the pair to the wallet, a burn, *)
(* a transfer from the wallet to the pair, a transfer of value 0, a         *)
(* transfer of the untracked token, a value that does not fit u128, and a   *)
(* second transfer from the pair to the wallet in transaction 12.           *)
TransferLogs ==
    {TransferLog(TOKEN1, ZERO_ADDRESS, WALLET1, U256(0, 1000), 4, 11),
     TransferLog(TOKEN1, PAIR1, WALLET1, U256(0, 1000), 4, 12),
     TransferLog(TOKEN1, PAIR1, WALLET1, U256(0, 500), 12, 13),
     TransferLog(TOKEN1, WALLET1, DEAD_ADDRESS, U256(0, 1000), 12, 14),
     TransferLog(TOKEN1, WALLET1, PAIR1, U256(0, 500), 12, 15),
     TransferLog(TOKEN1, PAIR1, WALLET1, U256(0, 0), 4, 16),
     TransferLog(TOKEN2, PAIR1, WALLET1, U256(0, 1000), 4, 17),
     TransferLog(TOKEN1, PAIR1, WALLET1, U256(1, 0), 4, 18),
     TransferLog(TOKEN1, PAIR1, WALLET1, U256(0, 250), 4, 12)}

NoTransfer ==
    [op |-> "none", n |-> 0, event |-> <<>>, F |-> {}, result |-> "none", again |-> FALSE]

(* The holder table at the start: empty, or with the wallet on file as the  *)
(* token's dev.                                                             *)
HoldersAtStart ==
    {<<>>,
     mark_as_dev(HeldToken, HolderWallet,
         TokenHolder_upsert([token_address |-> HeldToken, wallet_address |-> HolderWallet,
                             balance |-> 1000, is_dev |-> FALSE, is_sniper |-> FALSE,
                             is_contract |-> FALSE, first_buy_block |-> Some(2)], <<>>))}

InitTransfer ==
    /\ sync = <<>>
    /\ queue = <<>>
    /\ nextId = 1
    /\ pc = [f \in Filters |-> "idle"]
    /\ lastB = [f \in Filters |-> 0]
    /\ latestB = [f \in Filters |-> 0]
    /\ fromB = [f \in Filters |-> 0]
    /\ toB = [f \in Filters |-> 0]
    /\ att = [f \in Filters |-> 0]
    /\ slept = [f \in Filters |-> <<>>]
    /\ ticks = 0
    /\ ev = NoEvent
    /\ tip = 0
    /\ pairs = PairOnFile(0).pairs
    /\ tokens = PairOnFile(0).tokens
    /\ swaps = {}
    /\ holders \in HoldersAtStart
    /\ activity = {}
    /\ alerts = PairOnFile(0).alerts
    /\ snapshots = <<>>
    /\ batch = <<>>
    /\ ppc = "idle"
    /\ fetches = 0
    /\ faults = 0
    /\ pev = NoTransfer

(* handlers::transfer::handle on one decoded Transfer log *)
HandleTransfer ==
    /\ pev.n < MaxTransfers
    /\ \E log \in TransferLogs, F \in {{}} \cup {{s} : s \in TransferStatements} :
         \E r \in {transfer_handle(transfer_decode(log).event, F, Store)} :
           /\ tokens' = r.db.tokens
           /\ holders' = r.db.holders
           /\ activity' = r.db.activity
           /\ alerts' = r.db.alerts
           /\ pev' = [op |-> "transfer", n |-> pev.n + 1,
                      event |-> transfer_decode(log).event, F |-> F,
                      result |-> r.result,
                      again |-> pev.event = transfer_decode(log).event /\ pev.F = {}]
    /\ UNCHANGED <<pairs, swaps, snapshots, batch, ppc, fetches, faults>>

NextTransfer == HandleTransfer /\ UNCHANGED lvars

SpecTransfer == InitTransfer /\ [][NextTransfer]_vars

ZeroValue(event) == event.value = U256(0, 0)
Untracked(event) == AddrId(event.token) \notin DOMAIN tokens

(* C28: a Transfer event with value 0, or for a token that is not tracked   *)
(* (the token lookup answering), changes nothing: the handler writes no     *)
(* TokenHolder row, no WalletActivity row and no alert, and returns Ok.     *)
C28_ZeroOrUntrackedTransferIsSkipped ==
    [][(/\ pev'.op = "transfer"
        /\ \/ ZeroValue(pev'.event)
           \/ Untracked(pev'.event) /\ "token_find" \notin pev'.F)
         => /\ UNCHANGED <<pairs, tokens, swaps, holders, activity, alerts, snapshots>>
            /\ pev'.result = "Ok"]_vars

(* The transfer of the untracked token has been handled after a transfer of *)
(* the tracked one left its two activity rows.                              *)
C28_Witness ==
    /\ pev.op = "transfer" /\ pev.n = 2 /\ pev.result = "Ok"
    /\ Untracked(pev.event) /\ ~ZeroValue(pev.event)
    /\ Cardinality(activity) = 2

(* The rows of WalletActivity with the key of the event's transfer_out      *)
(* (transfer_in) row                                                        *)
ActivityRows(event, wallet, action, table) ==
    {r \in table : /\ r.tx_hash = event.tx_hash
                   /\ r.wallet_address = AddrId(wallet)
                   /\ r.token_address = AddrId(event.token)
                   /\ r.action = action}

IsMint(event) == to_lowercase(event.from) = ZERO_ADDRESS
IsBurn(event) == to_lowercase(event.to) \in {ZERO_ADDRESS, DEAD_ADDRESS}

(* The step handles a Transfer of a tracked token with a value the handler  *)
(* reads as non-zero, and no statement fails.                               *)
TransferRun ==
    /\ pev'.op = "transfer" /\ pev'.F = {}
    /\ hex_to_bigdecimal(pev'.event.value) # 0
    /\ ~Untracked(pev'.event)

(* C30: handling the same Transfer log N >= 1 times, no statement failing,  *)
(* leaves WalletActivity with at most one row per (tx_hash, wallet, token,  *)
(* action), one transfer_out for a non-mint sender and one transfer_in for  *)
(* a non-burn recipient, and every run after the first leaves WalletActivity *)
(* and the holder rows as the first run left them.                          *)
C30_RepeatedTransferIsIdempotent ==
    /\ [](\A a \in activity, b \in activity :
            (/\ a.tx_hash = b.tx_hash /\ a.wallet_address = b.wallet_address
             /\ a.token_address = b.token_address /\ a.action = b.action) => a = b)
    /\ [][TransferRun =>
            /\ Cardinality(ActivityRows(pev'.event, pev'.event.from, "transfer_out", activity'))
                  = IF IsMint(pev'.event)
                    THEN Cardinality(ActivityRows(pev'.event, pev'.event.from,
                                                  "transfer_out", activity))
                    ELSE 1
            /\ Cardinality(ActivityRows(pev'.event, pev'.event.to, "transfer_in", activity'))
                  = IF IsBurn(pev'.event)
                    THEN Cardinality(ActivityRows(pev'.event, pev'.event.to,
                                                  "transfer_in", activity))
                    ELSE 1]_vars
    /\ [][(TransferRun /\ pev'.again) =>
            /\ activity' = activity
            /\ holders' = holders]_vars

(* The early transfer from the pair to the wallet has been handled twice:   *)
(* two activity rows, and the wallet's row as the first run wrote it.       *)
C30_Witness ==
    /\ pev.op = "transfer" /\ pev.n = 2 /\ pev.again /\ pev.F = {}
    /\ pev.event.tx_hash = 12 /\ pev.event.value = U256(0, 1000)
    /\ Cardinality(activity) = 2
    /\ holders[HolderKey] = [balance |-> 1000, is_dev |-> FALSE, is_sniper |-> TRUE,
                             is_contract |-> FALSE, first_buy_block |-> Some(4)]

----------------------------------------------------------------------------
(* Two independent tokens: TOKEN1 with its pair PAIR1 against WBNB and      *)
(* TOKEN2 with its pair PAIR3 against BUSD are on file, and in every round  *)
(* one event of each side is handled, the TOKEN1 event first; the store the *)
(* other order leaves is kept beside it.                                    *)

MaxRounds == 3      \* rounds of two independent events in a run

NoRound == [op |-> "none", n |-> 0, first |-> <<>>, second |-> <<>>, other |-> <<>>]

TwoPairsOnFile ==
    pair_created_handle(
        pair_created_decode(PairCreatedLog(BUSD_ADDRESS, TOKEN2, PAIR3)).event,
        NoMeta, {}, PairOnFile(0)).db

(* A buy, a whale sell and a transfer to the wallet, on either side *)
SideLogs(pair, token, tx) ==
    {[Chain[3] EXCEPT !.address = from_str(pair), !.transaction_hash = tx,
                      !.data = <<U256(0, 100), U256(0, 0), U256(0, 0), U256(0, 1000)>>],
     [Chain[3] EXCEPT !.address = from_str(pair), !.transaction_hash = tx + 1,
                      !.data = <<U256(0, 0), U256(0, 5000), U256(0, 1000), U256(0, 0)>>],
     TransferLog(token, pair, WALLET1, U256(0, 1000), 4, tx + 2)}

(* One raw log through decode_event and the arm of its topic, no statement  *)
(* failing: the store it leaves                                             *)
Processed(log, db) ==
    handle_event(LogFacts(log).topic0, LogFacts(log).typed.event,
                 Some(LogFacts(log).decoded.channel), NoMeta, {}, db).db

InitCommute ==
    /\ sync = <<>>
    /\ queue = <<>>
    /\ nextId = 1
    /\ pc = [f \in Filters |-> "idle"]
    /\ lastB = [f \in Filters |-> 0]
    /\ latestB = [f \in Filters |-> 0]
    /\ fromB = [f \in Filters |-> 0]
    /\ toB = [f \in Filters |-> 0]
    /\ att = [f \in Filters |-> 0]
    /\ slept = [f \in Filters |-> <<>>]
    /\ ticks = 0
    /\ ev = NoEvent
    /\ tip = 0
    /\ pairs = TwoPairsOnFile.pairs
    /\ tokens = TwoPairsOnFile.tokens
    /\ swaps = {}
    /\ holders = <<>>
    /\ activity = {}
    /\ alerts = TwoPairsOnFile.alerts
    /\ snapshots = <<>>
    /\ batch = <<>>
    /\ ppc = "idle"
    /\ fetches = 0
    /\ faults = 0
    /\ pev = NoRound

HandleBoth ==
    /\ pev.n < MaxRounds
    /\ \E log1 \in SideLogs(PAIR1, TOKEN1, 21), log2 \in SideLogs(PAIR3, TOKEN2, 31) :
         \E r12 \in {Processed(log2, Processed(log1, Store))},
            r21 \in {Processed(log1, Processed(log2, Store))} :
           /\ pairs' = r12.pairs
           /\ tokens' = r12.tokens
           /\ swaps' = r12.swaps
           /\ holders' = r12.holders
           /\ activity' = r12.activity
           /\ alerts' = r12.alerts
           /\ snapshots' = r12.snapshots
           /\ pev' = [op |-> "both", n |-> pev.n + 1, first |-> log1, second |-> log2,
                      other |-> r21]
    /\ UNCHANGED <<batch, ppc, fetches, faults>>

NextCommute == HandleBoth /\ UNCHANGED lvars

SpecCommute == InitCommute /\ [][NextCommute]_vars

(* C31: two events that concern different tokens and pairs leave the same   *)
(* Pair, Token, TokenHolder, Swap and WalletActivity contents in either     *)
(* order.                                                                   *)
C31_IndependentEventsCommute ==
    pev.op = "both" =>
        /\ pev.other.pairs = pairs
        /\ pev.other.tokens = tokens
        /\ pev.other.holders = holders
        /\ pev.other.swaps = swaps
        /\ pev.other.activity = activity

----------------------------------------------------------------------------
(* The rubrics of BeeScoreCalculator at the edges of their bands            *)
(* (bee_score.rs 63-263): token rows with every metric in its top band, on  *)
(* the band boundary or inside it; rows with every metric in its bottom     *)
(* band; and rows over every edge of the price-action rubric, with the      *)
(* other traction rubrics at their lowest or highest and the safety         *)
(* rubrics at a ladder of totals.  update_token_score scores the row.       *)

TopSafety ==
    [liquidity_usd : {Some(100000), Some(150000)},
     lock : {<<Some(TRUE), Some(90)>>, <<Some(TRUE), Some(95)>>},
     top_10_holder_percent : {Some(40), Some(39), Some(30)},
     dev_holdings_percent : {Some(5), Some(4)},
     ownership_renounced : {Some(TRUE)}]

(* volume / liquidity is 0.5 for the first volume and 2 at most for the second *)
TopTraction(liquidity_usd) ==
    [volume_1h_usd : {Some(liquidity_usd[1] \div 2), Some(200000)},
     trades_1h : {Some(100), Some(150)},
     holders : {<<Some(120), Some(100)>>, <<Some(500), Some(400)>>},
     price_change_1h : {Some(5), Some(100)},
     trades : {<<Some(50), Some(50)>>, <<Some(4), Some(6)>>, <<Some(7), Some(3)>>}]

TopRows == {ScoreRow(s, t) : s \in TopSafety, t \in TopTraction(Some(100000))}

BottomSafety ==
    [liquidity_usd : {None, Some(0), Some(9999)},
     lock : {<<None, None>>, <<Some(FALSE), Some(95)>>},
     top_10_holder_percent : {None, Some(80)},
     dev_holdings_percent : {None, Some(20)},
     ownership_renounced : {None, Some(FALSE)}]

BottomTraction ==
    [volume_1h_usd : {None, Some(999)},
     trades_1h : {None, Some(4)},
     holders : {<<None, None>>, <<Some(10), Some(10)>>, <<Some(9), Some(10)>>,
                <<Some(10), Some(0)>>},
     price_change_1h : {Some(-51), Some(-60)},
     trades : {<<Some(1), Some(9)>>, <<Some(0), Some(5)>>}]

BottomRows == {ScoreRow(s, t) : s \in BottomSafety, t \in BottomTraction}

PriceValues == {-100, -51, -50, -49, -21, -20, -1, 0, 4, 5, 100, 101, 200, 201}

SafetyLadder ==
    [liquidity_usd : {None, Some(100000)},
     lock : {<<None, None>>, <<Some(TRUE), Some(90)>>},
     top_10_holder_percent : {None, Some(39)},
     dev_holdings_percent : {None, Some(19), Some(4)},
     ownership_renounced : {None, Some(TRUE)}]

PricedRows ==
    {ScoreRow(s, [t EXCEPT !.price_change_1h = Some(p)]) :
        s \in SafetyLadder, t \in TractionCorners, p \in PriceValues}

InitBands == \E row \in TopRows \cup BottomRows \cup PricedRows : InitWithToken(row)

(* Mutant of get_rating: the top rating starts above 80, as the comment on  *)
(* the alert threshold reads.                                               *)
get_rating_above(score) ==
    CASE score >= 81 /\ score <= 100 -> "Excellent"
      [] score >= 60 /\ score <= 79 -> "Good"
      [] score >= 40 /\ score <= 59 -> "Fair"
      [] score >= 20 /\ score <= 39 -> "Poor"
      [] OTHER -> "Risky"

(* BeeScoreCalculator::get_rating *)
get_rating(score) ==
    CASE score >= 80 /\ score <= 100 -> "Excellent"
      [] score >= 60 /\ score <= 79 -> "Good"
      [] score >= 40 /\ score <= 59 -> "Fair"
      [] score >= 20 /\ score <= 39 -> "Poor"
      [] OTHER -> "Risky"

(* The rating of the persisted score of the token is read *)
Rate ==
    /\ ScoredToken \in DOMAIN tokens
    /\ tokens[ScoredToken].bee_score # None
    /\ pev' = [op |-> "get_rating", token |-> ScoredToken, F |-> {},
               result |-> get_rating(tokens[ScoredToken].bee_score[1]), emitted |-> 0]
    /\ UNCHANGED <<pairs, tokens, swaps, holders, activity, alerts, snapshots, batch, ppc,
                   fetches, faults>>

NextBands ==
    \/ Rescore /\ UNCHANGED lvars
    \/ Rate /\ UNCHANGED lvars

SpecBands == InitBands /\ [][NextBands]_vars

(* The bands as the specification draws them, on the metrics calculate      *)
(* reads: the volume ratio, the holder growth and the buy ratio are the     *)
(* quotients calculate_traction forms.                                      *)
InTopBand(m) ==
    /\ m.liquidity_usd >= 100000
    /\ m.lp_locked /\ m.lp_lock_percent >= 90
    /\ m.top_10_holder_percent <= 40
    /\ m.dev_holdings_percent <= 5
    /\ m.ownership_renounced
    /\ 2 * m.volume_1h_usd >= m.liquidity_usd /\ m.volume_1h_usd <= 2 * m.liquidity_usd
    /\ m.trades_1h >= 100
    /\ m.holder_count_1h_ago > 0
    /\ 5 * (m.holder_count - m.holder_count_1h_ago) >= m.holder_count_1h_ago
    /\ m.price_change_1h >= 5 /\ m.price_change_1h <= 100
    /\ m.buys_1h + m.sells_1h > 0
    /\ 10 * m.buys_1h >= 4 * (m.buys_1h + m.sells_1h)
    /\ 10 * m.buys_1h <= 7 * (m.buys_1h + m.sells_1h)

InBottomBand(m) ==
    /\ m.liquidity_usd < 10000
    /\ ~m.lp_locked
    /\ m.top_10_holder_percent >= 80
    /\ m.dev_holdings_percent >= 20
    /\ ~m.ownership_renounced
    /\ m.liquidity_usd > 0 => 10 * m.volume_1h_usd < m.liquidity_usd
    /\ m.trades_1h < 5
    /\ m.holder_count >= 0 /\ m.holder_count_1h_ago >= 0
    /\ m.holder_count_1h_ago > 0 => m.holder_count <= m.holder_count_1h_ago
    /\ m.price_change_1h < -50
    /\ m.buys_1h >= 0 /\ m.sells_1h >= 0 /\ m.buys_1h + m.sells_1h > 0
    /\ 10 * m.buys_1h < 2 * (m.buys_1h + m.sells_1h)

(* the row of the token has been scored by the last run *)
ScoredNow ==
    /\ pev.op = "rescore"
    /\ pev.result = "Ok"
    /\ pev.F = {}
    /\ ScoredToken \in DOMAIN tokens

(* C32: whenever every metric of a scored token lies in the top band of     *)
(* its rubric, the band boundary included (liquidity 100000, LP locked at   *)
(* 90 percent, top-10 holders 40, dev holdings 5, renounced, volume ratio   *)
(* 0.5, 100 trades, holder growth 20 percent, price change 5, 50 percent    *)
(* buys), the persisted score is safety 60, traction 40, total 100.         *)
C32_TopBandScoresFull ==
    (ScoredNow /\ InTopBand(to_metrics(tokens[ScoredToken]))) =>
        ScoresOf(tokens[ScoredToken]) =
            [total |-> Some(100), safety_score |-> Some(60), traction_score |-> Some(40)]

PriceScoreAsSpecified(p) ==
    CASE p >= 5 /\ p <= 100 -> 6
      [] p >= 0 /\ p <= 200 -> 4
      [] p >= -20 -> 2
      [] p <= -50 -> 0
      [] OTHER -> 1

OnlyPriceScores(row) ==
    /\ row.volume_1h_usd = None
    /\ row.trades_1h = None
    /\ row.holder_count_1h_ago = None
    /\ row.buys_1h = Some(1) /\ row.sells_1h = Some(9)
    /\ row.price_change_1h # None

C34_PriceRubric ==
    (ScoredNow /\ OnlyPriceScores(tokens[ScoredToken])) =>
        tokens[ScoredToken].traction_score =
            Some(PriceScoreAsSpecified(tokens[ScoredToken].price_change_1h[1]))

(* C35: for every total score s in 0..100 get_rating(s) is "Excellent" if   *)
(* s >= 80, "Good" if 60 <= s < 80, "Fair" if 40 <= s < 60, "Poor" if       *)
(* 20 <= s < 40 and "Risky" otherwise; so the rating read for a persisted   *)
(* score is "Excellent" exactly when the score meets the threshold of the   *)
(* high_bee_score alert.                                                    *)
RatingAsSpecified(s) ==
    IF s >= 80 THEN "Excellent"
    ELSE IF s >= 60 THEN "Good"
    ELSE IF s >= 40 THEN "Fair"
    ELSE IF s >= 20 THEN "Poor"
    ELSE "Risky"

----------------------------------------------------------------------------
(* process_logs over raw logs of any shape (service.rs 100-185): the queue  *)
(* holds the logs themselves, well formed or cut short in their topics or   *)
(* their data, and logs of a topic no decoder knows; WBNB/TOKEN1 is on      *)
(* file, so that the well-formed logs have their handlers write.            *)

(* The first n topics of a log *)
WithTopics(log, n) == [log EXCEPT !.topics = SubSeq(@, 1, n)]

(* The first n 32-byte words of the data of a log *)
WithData(log, n) == [log EXCEPT !.data = SubSeq(@, 1, n)]

WellFormedLogs == {Chain[1], Chain[2], Chain[3]}

CutLogs ==
    {WithTopics(log, n) : log \in WellFormedLogs, n \in {1, 2}}
    \cup {WithData(log, 0) : log \in WellFormedLogs}
    \cup {WithData(Chain[3], n) : n \in {1, 3}}

UnknownTopicLogs == {Chain[6], [Chain[3] EXCEPT !.topics[1] = from_str(TOPIC_SYNC)]}

RawLogs == WellFormedLogs \cup CutLogs \cup UnknownTopicLogs

RawQueues ==
    UNION {{[i \in 1..n |-> [id |-> i, src |-> s[i]]] : s \in [1..n -> RawLogs]}
            : n \in 1..MaxQueue}

InitDecode ==
    /\ queue \in RawQueues
    /\ nextId = Len(queue) + 1
    /\ sync = <<>>
    /\ pc = [f \in Filters |-> "idle"]
    /\ lastB = [f \in Filters |-> 0]
    /\ latestB = [f \in Filters |-> 0]
    /\ fromB = [f \in Filters |-> 0]
    /\ toB = [f \in Filters |-> 0]
    /\ att = [f \in Filters |-> 0]
    /\ slept = [f \in Filters |-> <<>>]
    /\ ticks = 0
    /\ ev = NoEvent
    /\ tip = 0
    /\ pairs = PairOnFile(0).pairs
    /\ tokens = PairOnFile(0).tokens
    /\ swaps = {}
    /\ holders = <<>>
    /\ activity = {}
    /\ alerts = <<>>
    /\ snapshots = <<>>
    /\ batch = <<>>
    /\ ppc = "idle"
    /\ fetches = 0
    /\ faults = 0
    /\ pev = NoProc

(* One turn of the loop of process_logs for the first row left of the       *)
(* batch: decode, handle, re-score, publish, delete; the publish and the    *)
(* delete may fail.                                                         *)
ProcessRaw ==
    /\ ppc = "batch"
    /\ batch # <<>>
    /\ \E row \in {Head(batch)} :
       \E facts \in {LogFacts(row.src)} :
       \E F \in SUBSET {"publish", "delete"} :
         /\ faults + Cardinality(F) <= MaxFaults
         /\ faults' = faults + Cardinality(F)
         /\ \E r \in {handle_log(facts, NoMeta, F, Store)} :
            \E d \in {IF r.aborted THEN [delete |-> "not_issued", queue |-> queue]
                      ELSE delete_log(row, r.outcome, F, queue)} :
              /\ pairs' = r.db.pairs
              /\ tokens' = r.db.tokens
              /\ swaps' = r.db.swaps
              /\ holders' = r.db.holders
              /\ activity' = r.db.activity
              /\ alerts' = r.db.alerts
              /\ snapshots' = r.db.snapshots
              /\ queue' = d.queue
              /\ batch' = IF r.aborted THEN <<>> ELSE Tail(batch)
              /\ ppc' = IF batch' = <<>> THEN "idle" ELSE "batch"
              /\ pev' = [id |-> row.id, src |-> row.src, outcome |-> r.outcome,
                         published |-> IF "publish" \in F THEN None ELSE r.channel,
                         delete |-> d.delete, rescore |-> {}]
    /\ UNCHANGED fetches

NextDecode ==
    \/ ProcFetch /\ UNCHANGED lvarsButQueue
    \/ ProcessRaw /\ UNCHANGED lvarsButQueue

SpecDecode == InitDecode /\ [][NextDecode]_vars

(* C36: decode_event returns EventDecode for a PairCreated, Swap or         *)
(* Transfer log with fewer than 3 topics or with data shorter than the      *)
(* minimum of the event (32, 128, 32 bytes) and UnknownEventTopic for a log *)
(* of any other topic0, and decodes every other log; in a turn of           *)
(* process_logs for a log with either error no handler runs (the store is   *)
(* as before), nothing is published, and the loop goes on with the rest of  *)
(* the batch.                                                               *)
MinDataLen(topic0) == IF topic0 = TOPIC_SWAP THEN 128 ELSE 32

ErrorAsSpecified(log) ==
    IF Topic0(log) \in {TOPIC_PAIR_CREATED, TOPIC_SWAP, TOPIC_TRANSFER}
    THEN IF Len(log.topics) < 3 \/ DataLen(log) < MinDataLen(Topic0(log))
         THEN Some("EventDecode") ELSE None
    ELSE Some("UnknownEventTopic")

ErrorOf(decoded) == IF decoded.ok THEN None ELSE Some(decoded.err)

C36_UndecodableLogSkipped ==
    [][(ppc = "batch" /\ batch # <<>>) =>
         /\ ErrorOf(decode_event(Head(batch).src)) = ErrorAsSpecified(Head(batch).src)
         /\ ~decode_event(Head(batch).src).ok =>
               /\ pev'.outcome = "undecodable"
               /\ pev'.published = None
               /\ <<pairs, tokens, swaps, holders, activity, alerts, snapshots>>' =
                     <<pairs, tokens, swaps, holders, activity, alerts, snapshots>>
               /\ batch' = Tail(batch)
               /\ ppc' = IF Tail(batch) = <<>> THEN "idle" ELSE "batch"]_vars

(* A PairCreated log with two topics was skipped and deleted, the store is   *)
(* as it was, and the Transfer log behind it in the batch is still to come. *)
C36_Witness ==
    /\ pev.outcome = "undecodable"
    /\ pev.src = WithTopics(Chain[1], 2)
    /\ pev.published = None
    /\ pev.delete = "ok"
    /\ ppc = "batch"
    /\ batch # <<>>
    /\ Head(batch).src = Chain[2]
    /\ tokens = PairOnFile(0).tokens
    /\ alerts = <<>>
----------------------------------------------------------------------------
(* C37: whenever a tick of the listener sets the cursor of its filter to    *)
(* its block `to`, every log get_logs returned for [from, to] in that tick  *)
(* is among the rows the tick appended to the raw-log queue: a failed       *)
(* insert of a log never lets the cursor move past the block of a log that  *)
(* was not persisted.                                                       *)
AppendedBy(q, q2) == {q2[k].src : k \in (Len(q) + 1)..Len(q2)}

C37_CursorNeverPassesUnsavedLog ==
    [][\A f \in Filters :
        (/\ AttemptOf(f)
         /\ ev'.kind \in {"committed", "committed_partial"}
         /\ sync' # sync
         /\ sync'[SyncRow[f]] = toB[f])
        => \A i \in DOMAIN get_logs(build_filter(f, fromB[f], toB[f])) :
              get_logs(build_filter(f, fromB[f], toB[f]))[i] \in AppendedBy(queue, queue')]_vars

(* C38: for one filter the block ranges of successively committed ticks are *)
(* contiguous and disjoint: the tick that follows a committed tick of the   *)
(* filter requests from = previous to + 1 with from <= to <= tip.           *)
C38_RangesContiguous ==
    [][\A f \in Filters :
        (/\ ev.kind = "committed" /\ ev.f = f
         /\ ev'.kind = "start" /\ ev'.f = f)
        => /\ ev'.from = ev.to + 1
           /\ ev'.from <= ev'.to
           /\ ev'.to <= ev'.latest]_vars

----------------------------------------------------------------------------
(* C39: a Transfer handled for a tracked token (its value read as non-zero, *)
(* no statement failing) flags its recipient as sniper exactly when         *)
(* block_number <= creation block of the token + 2, the sender is not the   *)
(* zero address and the recipient is not a burn address: then the           *)
(* recipient's holder row is a sniper's, and otherwise the flag of the row  *)
(* is as it was; a mint adds no transfer_out activity, and a burn changes   *)
(* no holder row and adds no transfer_in activity.                          *)
RecipientKey(event) == <<AddrId(event.token), AddrId(event.to)>>

IsSniperRow(key, table) == key \in DOMAIN table /\ table[key].is_sniper

EarlyTransfer(event) ==
    parse_i64_or_0(event.block)
        <= unwrap_or(tokens[AddrId(event.token)].block_number, 0) + 2

Added(action) == {r \in activity' \ activity : r.action = action}

C39_SniperMintBurn ==
    [][TransferRun =>
        /\ IsSniperRow(RecipientKey(pev'.event), holders') =
              IF EarlyTransfer(pev'.event) /\ ~IsMint(pev'.event) /\ ~IsBurn(pev'.event)
              THEN TRUE
              ELSE IsSniperRow(RecipientKey(pev'.event), holders)
        /\ IsMint(pev'.event) => Added("transfer_out") = {}
        /\ IsBurn(pev'.event) => (holders' = holders /\ Added("transfer_in") = {})]_vars

(* After the mint of block 4 left the wallet's row without the flag, the    *)
(* transfer from the pair in block 4 (creation block 2) has flagged it.     *)
C39_Witness ==
    /\ pev.op = "transfer" /\ pev.n = 2 /\ pev.F = {} /\ ~pev.again
    /\ pev.event.tx_hash = 12 /\ pev.event.value = U256(0, 250)
    /\ tokens[HeldToken].block_number = Some(2)
    /\ holders[HolderKey] = [balance |-> 250, is_dev |-> FALSE, is_sniper |-> TRUE,
                             is_contract |-> FALSE, first_buy_block |-> Some(4)]
    /\ {r.action : r \in activity} = {"transfer_in", "transfer_out"}
    /\ Cardinality(activity) = 3

(* C40: hex_to_bigdecimal returns the value of every 32-byte amount of a    *)
(* decoded event, the values from 2^128 on included, so that a Transfer of  *)
(* a tracked token with such an amount is not ignored as a zero-value       *)
(* transfer: when no statement fails, the handler reads a non-zero word as  *)
(* a non-zero amount and leaves the transfer_in row of a recipient that is  *)
(* not a burn address.                                                      *)
C40_LargeAmountNotReadAsZero ==
    [][(/\ pev'.op = "transfer" /\ pev'.F = {}
        /\ ~Untracked(pev'.event)
        /\ ~ZeroValue(pev'.event))
       => /\ hex_to_bigdecimal(pev'.event.value) # 0
          /\ ~IsBurn(pev'.event) =>
                ActivityRows(pev'.event, pev'.event.to, "transfer_in", activity') # {}]_vars

====
